---- MODULE Spec2Model ----
(***************************************************************************)
(* Model of MusicDataScraper (src/web_scraper.py): the token-window        *)
(* chunker, the structured-record parsers, the metadata sanitizer, the     *)
(* collectors, the store step and the run; and of create_chord_visuals of  *)
(* MusicWebScraper (src/chord_visualizer.py).                              *)
(*                                                                         *)
(* Strings are sequences of one-character strings, so that concatenation,  *)
(* strip(), str() and json.dumps() are computed character by character.    *)
(* One behaviour is one scraper object working on one input item: Init     *)
(* draws the constructor argument chunk_size and the item, the actions are *)
(* the scraper's methods applied to it.                                    *)
(***************************************************************************)
EXTENDS Integers, Sequences, FiniteSets, TLC

VARIABLES
    chunk_size,         \* self.chunk_size
    now,                \* the wall clock read by time.time(), in half seconds
    last_request_time,  \* self.last_request_time
    kind,               \* which kind of item this run works on
    text,               \* _chunk_text: argument text
    metadata,           \* _chunk_text: argument metadata
    ct_calls,           \* _chunk_text: number of calls made so far
    ct_outcome,         \* _chunk_text: "none", "returned" or "ValueError"
    ct_windows,         \* _chunk_text: the chunk_tokens of each iteration
    ct_chunks,          \* _chunk_text: the returned list of dicts
    ct_first,           \* _chunk_text: the first call's chunk_ids and its time
    ct_refs,            \* the dict object each returned chunk holds as metadata
    ct_heap,            \* what each dict object holds now; object 0 is the caller's
    ct_touched,         \* the chunks whose metadata the caller has changed
    gp_filepaths,       \* parse_tuxguitar_files: argument, the files' contents
    midi_filepaths,     \* parse_midi_files: argument, the files' contents
    tab_filepaths,      \* parse_freetar_ascii_tabs: argument, the files' contents
    parsed,             \* whether the parser has been called
    produced,           \* the list of MusicChunk the parser returned
    sn_metadata,        \* _sanitize_metadata_for_chromadb: argument metadata
    sn_outcome,         \* its outcome: "none", "returned" or "TypeError"
    sn_sanitized,       \* the dict it returned
    st_chunks,          \* save_to_chromadb: argument chunks
    st_calls,           \* save_to_chromadb: number of calls made so far
    st_outcome,         \* its outcome: "none", "returned" or "TypeError"
    st_submitted,       \* the batches its last call handed to collection.add
    st_failed,          \* the numbers of those whose insert raised
    collection,         \* self.collection: the entry the index holds per id
    pg_path,            \* the prose path a page is given to
    pg_page,            \* the page: the response and the text extracted
    pg_done,            \* whether the path has run
    pg_chunks,          \* the list of MusicChunk it returned
    co_collector,       \* the collector that is called
    co_input,           \* what its URLs lead to
    co_done,            \* whether it has been called
    co_requests,        \* the URLs it asked _make_request for, in order
    co_chunks,          \* the list of MusicChunk it returned
    rn_token,           \* run_full_scrape: argument hooktheory_token
    rn_pc,              \* the number of the call it makes next
    rn_outcome,         \* "none", "running", "returned" or "raised"
    rn_last,            \* the chunks of the collector called last
    rn_all_chunks,      \* all_chunks
    rn_events,          \* the calls made so far, with the chunk_ids given
    rn_requests,        \* the URLs asked of _make_request so far
    rn_report,          \* what _print_summary printed
    rq_log,             \* _make_request: the GETs sent, with their start time
    cv_chords_data,     \* create_chord_visuals: argument chords_data
    cv_done,            \* whether it has been called
    cv_visual_data      \* the list it returned

chunker == <<text, metadata, ct_calls, ct_outcome, ct_windows, ct_chunks,
             ct_first, ct_refs, ct_heap, ct_touched>>
parser == <<gp_filepaths, midi_filepaths, tab_filepaths, parsed, produced>>
sanitizer == <<sn_metadata, sn_outcome, sn_sanitized>>
clock == <<now, last_request_time, rq_log>>
store == <<st_chunks, st_calls, st_outcome, st_submitted, st_failed,
           collection>>

prose == <<pg_path, pg_page, pg_done, pg_chunks>>
collect == <<co_collector, co_input, co_done, co_requests, co_chunks>>
run == <<rn_token, rn_pc, rn_outcome, rn_last, rn_all_chunks, rn_events,
         rn_requests, rn_report>>

visuals == <<cv_chords_data, cv_done, cv_visual_data>>

vars == <<chunk_size, kind, clock, chunker, parser, sanitizer, store,
          prose, collect, run, visuals>>

-----------------------------------------------------------------------------
(* Bounds of the model *)

MaxTextLen == 5
MaxChunkSize == 3
MaxTime == 4
MaxMeasures == 2
MaxVoices == 2
MaxBeats == 2
MaxParts == 2
MaxItems == 2
MaxBatches == 2
MaxUrls == 3
MaxPieces == 3
MaxChords == 2

(* self.request_delay = 1.0 second, in half seconds *)
RequestDelay == 2

\* were _rate_limit never to sleep
AfterRateLimitNoSleep(current_time, last) == current_time..MaxTime

\* _rate_limit: the values time.time() can return on its last line, when
\* it returned current_time on the first.  time.sleep sleeps for the time
\* asked or longer, and the clock does not go back
AfterRateLimit(current_time, last) ==
    LET time_since_last == current_time - last
    IN  IF time_since_last < RequestDelay
        THEN (current_time + (RequestDelay - time_since_last))..MaxTime
        ELSE current_time..MaxTime

-----------------------------------------------------------------------------
(* Strings *)

Alphabet == {"a", "b", " "}

IsSpace(c) == c = " "

\* str.isspace() of one character
IsWhitespace(c) == c \in {" ", "\n", "\t"}

IsDigit(c) == c \in {"0", "1", "2", "3", "4", "5", "6", "7", "8", "9"}

Texts == UNION {[1..k -> Alphabet] : k \in 0..MaxTextLen}

Min(a, b) == IF a < b THEN a ELSE b

\* str.strip(): the string without its leading and trailing whitespace
Strip(s) ==
    LET keep == {i \in 1..Len(s) : ~IsWhitespace(s[i])}
    IN  IF keep = {} THEN <<>>
        ELSE LET lo == CHOOSE i \in keep : \A j \in keep : i <= j
                 hi == CHOOSE i \in keep : \A j \in keep : j <= i
             IN  SubSeq(s, lo, hi)

-----------------------------------------------------------------------------
(* The tokenizer: tiktoken's byte-pair encoding over a small vocabulary.   *)
(* A token is the string it decodes to.  The vocabulary holds every single *)
(* character, a space joined to the following non-digit character (" a"),  *)
(* and the double space; a run of whitespace leaves its last space to the  *)
(* word that follows, as the cl100k_base split pattern does.               *)

\* the first and the last position of the run of whitespace that holds p
RunStart(s, p) ==
    CHOOSE r \in 1..p :
        /\ \A j \in r..p : IsSpace(s[j])
        /\ r = 1 \/ ~IsSpace(s[r - 1])

RunEnd(s, p) ==
    CHOOSE e \in p..Len(s) :
        /\ \A j \in p..e : IsSpace(s[j])
        /\ e = Len(s) \/ ~IsSpace(s[e + 1])

\* whether a token of s starts at position p.  A character other than
\* whitespace starts one unless the space before it is joined to it.  Of a
\* run of whitespace the last space is left to the word that follows, the
\* others pair up from the left into double spaces.
IsTokenStart(s, p) ==
    IF ~IsSpace(s[p])
    THEN p = 1 \/ ~IsSpace(s[p - 1]) \/ IsDigit(s[p])
    ELSE LET r == RunStart(s, p)
             e == RunEnd(s, p)
             avail == IF e < Len(s) THEN e - r ELSE e - r + 1
         IN  IF p - r < avail THEN (p - r) % 2 = 0 ELSE TRUE

TokenStarts(s) == {p \in 1..Len(s) : IsTokenStart(s, p)}

\* self.tokenizer.encode(text)
Encode(s) ==
    LET IsStart(p) == IsTokenStart(s, p)
        starts == SelectSeq([p \in 1..Len(s) |-> p], IsStart)
        n == Len(starts)
    IN  [k \in 1..n |->
            SubSeq(s, starts[k], IF k = n THEN Len(s) ELSE starts[k + 1] - 1)]

\* len(self.tokenizer.encode(text))
TokenCount(s) == Cardinality(TokenStarts(s))

\* self.tokenizer.decode(tokens): the tokens' strings joined
RECURSIVE Decode(_)
Decode(tokens) ==
    IF tokens = <<>> THEN <<>> ELSE Head(tokens) \o Decode(Tail(tokens))

-----------------------------------------------------------------------------
(* _chunk_text *)

\* hashlib.md5(s.encode()).hexdigest(), taken to be collision-free: the
\* digest stands for the hashed string
Md5(s) == <<"md5", s>>

\* dict.get(key, default)
DictGet(d, key, default) == IF key \in DOMAIN d THEN d[key] ELSE default

\* PyRange with the bound included: the loop body runs once more
RECURSIVE PyRangeInclusive(_, _, _)
PyRangeInclusive(start, stop, step) ==
    IF step > 0
    THEN IF start > stop THEN <<>>
         ELSE <<start>> \o PyRangeInclusive(start + step, stop, step)
    ELSE <<>>

\* list(range(start, stop, step)) for step # 0
RECURSIVE PyRange(_, _, _)
PyRange(start, stop, step) ==
    IF step > 0
    THEN IF start >= stop THEN <<>>
         ELSE <<start>> \o PyRange(start + step, stop, step)
    ELSE <<>>

\* seq[i:j] for 0 <= i <= j
Slice(seq, i, j) == SubSeq(seq, i + 1, Min(j, Len(seq)))

\* ChunkWindows looping over the full windows only: a shorter last window
\* is dropped
ChunkWindowsFullOnly(tokens, n) ==
    LET starts == PyRange(0, Len(tokens) - n + 1, n)
    IN  [k \in 1..Len(starts) |-> Slice(tokens, starts[k], starts[k] + n)]

\* the chunk_tokens of every iteration of the loop, in order
ChunkWindows(tokens, n) ==
    LET starts == PyRange(0, Len(tokens), n)
    IN  [k \in 1..Len(starts) |-> Slice(tokens, starts[k], starts[k] + n)]

\* ChunkId salted with the time of the last request
ChunkIdSalted(source, chunk_text) ==
    Md5(source \o chunk_text \o <<last_request_time>>)

\* the chunk_id of one iteration
ChunkId(source, chunk_text) == Md5(source \o chunk_text)

\* ChunkDict counting the tokens of the stripped content
ChunkDictCountingContent(chunk_tokens, md) ==
    LET chunk_text == Decode(chunk_tokens)
    IN  [content     |-> Strip(chunk_text),
         metadata    |-> md,
         chunk_id    |-> Md5(DictGet(md, "source", <<>>) \o chunk_text),
         token_count |-> TokenCount(Strip(chunk_text))]

\* the dict appended by one iteration
ChunkDict(chunk_tokens, md) ==
    LET chunk_text == Decode(chunk_tokens)
    IN  [content     |-> Strip(chunk_text),
         metadata    |-> md,
         chunk_id    |-> ChunkId(DictGet(md, "source", <<>>), chunk_text),
         token_count |-> Len(chunk_tokens)]

\* range() raises ValueError for a step of zero
ChunkTextRaises(n) == n = 0

\* were 'metadata': metadata stored, the caller's dict itself
MetadataShared(n) == [k \in 1..n |-> 0]

\* 'metadata': metadata.copy() in each of n iterations: chunk k holds a new
\* dict object, numbered k; the caller's dict is object 0
MetadataCopies(n) == [k \in 1..n |-> k]

\* the returned list
ChunkText(t, md, n) ==
    LET windows == ChunkWindows(Encode(t), n)
    IN  [k \in 1..Len(windows) |-> ChunkDict(windows[k], md)]

Ids(chunks) == [k \in 1..Len(chunks) |-> chunks[k].chunk_id]

-----------------------------------------------------------------------------
(* Python and JSON text *)

RECURSIVE ConcatAll(_)
ConcatAll(ss) == IF ss = <<>> THEN <<>> ELSE Head(ss) \o ConcatAll(Tail(ss))

\* sep.join(parts)
RECURSIVE Join(_, _)
Join(sep, parts) ==
    IF parts = <<>> THEN <<>>
    ELSE IF Len(parts) = 1 THEN parts[1]
    ELSE parts[1] \o sep \o Join(sep, Tail(parts))

CommaSpace == <<",", " ">>

Digit(d) == <<"0", "1", "2", "3", "4", "5", "6", "7", "8", "9">>[d + 1]

\* str(n) for an int n >= 0
RECURSIVE Str(_)
Str(n) == IF n < 10 THEN <<Digit(n)>> ELSE Str(n \div 10) \o <<Digit(n % 10)>>

\* the characters json.dumps writes for one character of a string
JsonEscapeChar(c) ==
    IF c = "\"" THEN <<"\\", "\"">>
    ELSE IF c = "\\" THEN <<"\\", "\\">>
    ELSE <<c>>

\* json.dumps(s) for a str s
JsonString(s) ==
    <<"\"">> \o ConcatAll([i \in 1..Len(s) |-> JsonEscapeChar(s[i])]) \o <<"\"">>

\* the string literals of the program
Word ==
    [ source |-> <<"s", "o", "u", "r", "c", "e">>,
      title |-> <<"t", "i", "t", "l", "e">>,
      track |-> <<"t", "r", "a", "c", "k">>,
      measure |-> <<"m", "e", "a", "s", "u", "r", "e">>,
      beat |-> <<"b", "e", "a", "t">>,
      chord |-> <<"c", "h", "o", "r", "d">>,
      tempo |-> <<"t", "e", "m", "p", "o">>,
      notes |-> <<"n", "o", "t", "e", "s">>,
      string_fret |-> <<"s", "t", "r", "i", "n", "g", "_", "f", "r", "e",
                        "t">>,
      duration |-> <<"d", "u", "r", "a", "t", "i", "o", "n">>,
      part |-> <<"p", "a", "r", "t">>,
      string |-> <<"s", "t", "r", "i", "n", "g">>,
      fret |-> <<"f", "r", "e", "t">>,
      TuxGuitar |-> <<"T", "u", "x", "G", "u", "i", "t", "a", "r">>,
      GuitarTrainer |-> <<"G", "u", "i", "t", "a", "r", "T", "r", "a", "i",
                          "n", "e", "r">>,
      null |-> <<"n", "u", "l", "l">>,
      true |-> <<"t", "r", "u", "e">>,
      false |-> <<"f", "a", "l", "s", "e">>,
      True |-> <<"T", "r", "u", "e">>,
      False |-> <<"F", "a", "l", "s", "e">>,
      None |-> <<"N", "o", "n", "e">>,
      content_from |-> <<"C", "o", "n", "t", "e", "n", "t", " ", "f", "r",
                         "o", "m", " ">>,
      general |-> <<"g", "e", "n", "e", "r", "a", "l">>,
      intermediate |-> <<"i", "n", "t", "e", "r", "m", "e", "d", "i", "a",
                         "t", "e">>,
      guitar |-> <<"g", "u", "i", "t", "a", "r">>,
      lesson |-> <<"l", "e", "s", "s", "o", "n">>,
      main_page |-> <<"m", "a", "i", "n", "_", "p", "a", "g", "e">>,
      educational_material |-> <<"e", "d", "u", "c", "a", "t", "i", "o", "n",
                                 "a", "l", "_", "m", "a", "t", "e", "r", "i",
                                 "a", "l">>,
      webpage |-> <<"w", "e", "b", "p", "a", "g", "e">>,
      PDF |-> <<"P", "D", "F">>,
      pdf |-> <<"p", "d", "f">>,
      dot_pdf |-> <<".", "p", "d", "f">>,
      UltimateGuitar |-> <<"U", "l", "t", "i", "m", "a", "t", "e", "G", "u",
                           "i", "t", "a", "r">>,
      guitar_tab |-> <<"g", "u", "i", "t", "a", "r", "_", "t", "a", "b">>,
      dash |-> <<" ", "-", " ">>,
      Unknown |-> <<"U", "n", "k", "n", "o", "w", "n">>,
      awesome_guitar |-> <<"a", "w", "e", "s", "o", "m", "e", "-", "g", "u",
                           "i", "t", "a", "r">>,
      HookTheory |-> <<"H", "o", "o", "k", "T", "h", "e", "o", "r", "y">>,
      chord_progression |-> <<"c", "h", "o", "r", "d", "_", "p", "r", "o",
                              "g", "r", "e", "s", "s", "i", "o", "n">>,
      hooktheory_api |-> <<"h", "t", "t", "p", "s", ":", "/", "/", "a", "p",
                           "i", ".", "h", "o", "o", "k", "t", "h", "e", "o",
                           "r", "y", ".", "c", "o", "m", "/", "v", "1", "/",
                           "t", "r", "e", "n", "d", "s", "/", "n", "o", "d",
                           "e", "s", "?", "c", "p", "=">>,
      theory |-> <<"t", "h", "e", "o", "r", "y">>,
      tutorial |-> <<"t", "u", "t", "o", "r", "i", "a", "l">>,
      scale |-> <<"s", "c", "a", "l", "e">>,
      exercise |-> <<"e", "x", "e", "r", "c", "i", "s", "e">>,
      chord_progression_is |-> <<"C", "h", "o", "r", "d", " ", "p", "r", "o",
                                 "g", "r", "e", "s", "s", "i", "o", "n", ":",
                                 " ">>,
      song_is |-> <<"S", "o", "n", "g", ":", " ">>,
      artist_is |-> <<"A", "r", "t", "i", "s", "t", ":", " ">>,
      probability_is |-> <<"P", "r", "o", "b", "a", "b", "i", "l", "i", "t",
                           "y", ":", " ">>,
      readme_url |-> <<"h", "t", "t", "p", "s", ":", "/", "/", "r", "a", "w",
                       ".", "g", "i", "t", "h", "u", "b", "u", "s", "e", "r",
                       "c", "o", "n", "t", "e", "n", "t", ".", "c", "o", "m",
                       "/", "s", "f", "i", "s", "c", "h", "e", "r", "1", "3",
                       "/", "a", "w", "e", "s", "o", "m", "e", "-", "g", "u",
                       "i", "t", "a", "r", "/", "m", "a", "s", "t", "e", "r",
                       "/", "R", "E", "A", "D", "M", "E", ".", "m", "d">>,
      p1564 |-> <<"1", ",", "5", ",", "6", ",", "4">>,
      p1645 |-> <<"1", ",", "6", ",", "4", ",", "5">>,
      p6415 |-> <<"6", ",", "4", ",", "1", ",", "5">>,
      p251 |-> <<"2", ",", "5", ",", "1">>,
      p1451 |-> <<"1", ",", "4", ",", "5", ",", "1">>,
      freetar |-> <<"f", "r", "e", "e", "t", "a", "r">>,
      section |-> <<"s", "e", "c", "t", "i", "o", "n">>,
      tab |-> <<"t", "a", "b">>,
      Intro |-> <<"I", "n", "t", "r", "o">>,
      verse |-> <<"v", "e", "r", "s", "e">>,
      chorus |-> <<"c", "h", "o", "r", "u", "s">>,
      bridge |-> <<"b", "r", "i", "d", "g", "e">>,
      solo |-> <<"s", "o", "l", "o">>,
      intro |-> <<"i", "n", "t", "r", "o">>,
      outro |-> <<"o", "u", "t", "r", "o">>,
      extracted |-> <<"e", "x", "t", "r", "a", "c", "t", "e", "d">>,
      database |-> <<"d", "a", "t", "a", "b", "a", "s", "e">>,
      dot_png |-> <<".", "p", "n", "g">>,
      remote_png |-> <<"_", "r", "e", "m", "o", "t", "e", ".", "p", "n", "g">>,
      chord_diagrams |-> <<"c", "h", "o", "r", "d", "_", "d", "i", "a", "g",
                           "r", "a", "m", "s", "/">> ]

\* json.dumps(n) for an int n; None is written null.  An optional value is a
\* sequence of length at most one, <<>> standing for None.
JsonOptInt(o) == IF o = <<>> THEN Word.null ELSE Str(o[1])

JsonOptString(o) == IF o = <<>> THEN Word.null ELSE JsonString(o[1])

\* json.dumps(d) for a dict d, given as its (key, dumped value) pairs in
\* insertion order
JsonObject(pairs) ==
    <<"{">>
    \o Join(CommaSpace,
            [i \in 1..Len(pairs) |->
                JsonString(pairs[i][1]) \o <<":", " ">> \o pairs[i][2]])
    \o <<"}">>

\* json.dumps(l) for a list l, given as its dumped items
JsonArray(items) == <<"[">> \o Join(CommaSpace, items) \o <<"]">>

-----------------------------------------------------------------------------
(* parse_tuxguitar_files *)

\* the chunk_dict of one beat
TuxChunkDict(title, tempo, track_idx, measure_num, beat_idx, beat) ==
    LET notes == [i \in 1..Len(beat.notes) |-> Str(beat.notes[i].value)]
        string_fret ==
            [i \in 1..Len(beat.notes) |->
                JsonObject(<< <<Word.string, Str(beat.notes[i].string)>>,
                              <<Word.fret, Str(beat.notes[i].value)>> >>)]
    IN  [source      |-> Word.TuxGuitar,
         title       |-> title,
         track       |-> track_idx,
         measure     |-> measure_num,
         beat        |-> beat_idx,
         chord       |-> beat.chord,
         tempo       |-> tempo,
         notes       |-> IF notes # <<>> THEN Join(CommaSpace, notes) ELSE <<>>,
         string_fret |-> JsonArray(string_fret),
         duration    |-> beat.duration]

\* json.dumps(chunk_dict)
TuxChunkText(d) ==
    JsonObject(<< <<Word.source, JsonString(d.source)>>,
                  <<Word.title, JsonString(d.title)>>,
                  <<Word.track, Str(d.track)>>,
                  <<Word.measure, Str(d.measure)>>,
                  <<Word.beat, Str(d.beat)>>,
                  <<Word.chord, JsonOptString(d.chord)>>,
                  <<Word.tempo, Str(d.tempo)>>,
                  <<Word.notes, JsonString(d.notes)>>,
                  <<Word.string_fret, JsonString(d.string_fret)>>,
                  <<Word.duration, JsonOptInt(d.duration)>> >>)

\* TuxChunkId hashing the title, the track and the beat index only
TuxChunkIdTrackBeat(title, track_idx, measure_num, beat_idx, chunk_text) ==
    Md5(title \o Str(track_idx) \o Str(beat_idx))

\* the chunk_id of one beat
TuxChunkId(title, track_idx, measure_num, beat_idx, chunk_text) ==
    Md5(title \o Str(track_idx) \o Str(measure_num) \o Str(beat_idx)
        \o chunk_text)

\* the MusicChunk of one beat
TuxChunk(title, tempo, track_idx, measure_num, beat_idx, beat) ==
    LET chunk_dict == TuxChunkDict(title, tempo, track_idx, measure_num,
                                   beat_idx, beat)
        chunk_text == TuxChunkText(chunk_dict)
    IN  [source      |-> Word.TuxGuitar,
         title       |-> title,
         content     |-> chunk_text,
         metadata    |-> chunk_dict,
         chunk_id    |-> TuxChunkId(title, track_idx, measure_num, beat_idx,
                                    chunk_text),
         token_count |-> TokenCount(chunk_text)]

\* the chunks of one measure: every beat of every voice, in order
TuxMeasureChunks(title, tempo, track_idx, measure_num, measure) ==
    ConcatAll([v \in 1..Len(measure.voices) |->
        [b \in 1..Len(measure.voices[v].beats) |->
            TuxChunk(title, tempo, track_idx, measure_num, b - 1,
                     measure.voices[v].beats[b])]])

\* the chunks of one track: none for a percussion track
TuxTrackChunks(title, tempo, track_idx, track) ==
    IF track.isPercussionTrack THEN <<>>
    ELSE ConcatAll([m \in 1..Len(track.measures) |->
            TuxMeasureChunks(title, tempo, track_idx, m, track.measures[m])])

\* the chunks of one file: none when the file is missing or guitarpro.open
\* raises
TuxFileChunks(file) ==
    IF ~file.exists \/ ~file.readable THEN <<>>
    ELSE LET song == file.song
             title == IF song.title # <<>> THEN song.title ELSE file.basename
         IN  ConcatAll([t \in 1..Len(song.tracks) |->
                TuxTrackChunks(title, song.tempo, t - 1, song.tracks[t])])

\* the returned list
ParseTuxGuitarFiles(files) ==
    ConcatAll([f \in 1..Len(files) |-> TuxFileChunks(files[f])])

-----------------------------------------------------------------------------
(* parse_midi_files *)

\* the names collected from the notes and chords of a stream: a note gives
\* its nameWithOctave, a chord the names of its pitches
MidiNotes(elements) == ConcatAll(elements)

\* the chunk_dict of one measure, or of a part without measures
MidiChunkDict(title, tempo, part_idx, measure_number, notes) ==
    [source  |-> Word.GuitarTrainer,
     title   |-> title,
     part    |-> part_idx,
     measure |-> measure_number,
     notes   |-> Join(CommaSpace, notes),
     tempo   |-> tempo]

\* json.dumps(chunk_dict)
MidiChunkText(d) ==
    JsonObject(<< <<Word.source, JsonString(d.source)>>,
                  <<Word.title, JsonString(d.title)>>,
                  <<Word.part, Str(d.part)>>,
                  <<Word.measure, Str(d.measure)>>,
                  <<Word.notes, JsonString(d.notes)>>,
                  <<Word.tempo, JsonOptInt(d.tempo)>> >>)

\* the chunk_id of one measure
MidiChunkId(title, part_idx, measure_number, chunk_text) ==
    Md5(title \o Str(part_idx) \o Str(measure_number) \o chunk_text)

\* the MusicChunk of one measure
MidiChunk(title, tempo, part_idx, measure_number, notes) ==
    LET chunk_dict == MidiChunkDict(title, tempo, part_idx, measure_number,
                                    notes)
        chunk_text == MidiChunkText(chunk_dict)
    IN  [source      |-> Word.GuitarTrainer,
         title       |-> title,
         content     |-> chunk_text,
         metadata    |-> chunk_dict,
         chunk_id    |-> MidiChunkId(title, part_idx, measure_number,
                                     chunk_text),
         token_count |-> TokenCount(chunk_text)]

\* the chunks of one part: the whole part as measure 1 when it has no
\* measures, else one chunk per measure that holds notes
MidiPartChunks(title, tempo, part_idx, part) ==
    IF part.measures = <<>>
    THEN <<MidiChunk(title, tempo, part_idx, 1, MidiNotes(part.elements))>>
    ELSE ConcatAll([m \in 1..Len(part.measures) |->
            LET notes == MidiNotes(part.measures[m].elements)
            IN  IF notes # <<>>
                THEN <<MidiChunk(title, tempo, part_idx,
                                 part.measures[m].number, notes)>>
                ELSE <<>>])

\* the chunks of one file: none when the file is missing or
\* music21.converter.parse raises
MidiFileChunks(file) ==
    IF ~file.exists \/ ~file.readable THEN <<>>
    ELSE ConcatAll([p \in 1..Len(file.score.parts) |->
            MidiPartChunks(file.basename, file.score.tempo, p - 1,
                           file.score.parts[p])])

\* the returned list
ParseMidiFiles(files) ==
    ConcatAll([f \in 1..Len(files) |-> MidiFileChunks(files[f])])

-----------------------------------------------------------------------------
(* _sanitize_metadata_for_chromadb *)

(* A Python value is a record tagged by its type t: a str (its characters  *)
(* s), an int (n; it stands for float too), a bool (b), None, a list (its  *)
(* items), a dict (its items, each a key and a value, in insertion order), *)
(* or an object of another type, such as a set, whose str() is repr.  A    *)
(* tuple occurs as a dict key only.                                        *)

IsScalar(v) == v.t \in {"str", "int", "bool", "none"}

\* isinstance(item, (str, int, float)): bool is a subclass of int
IsStrIntFloat(v) == v.t \in {"str", "int", "bool"}

RECURSIVE PyRepr(_)
\* repr(v)
PyRepr(v) ==
    CASE v.t = "str"  -> <<"'">> \o v.s \o <<"'">>
      [] v.t = "int"  -> Str(v.n)
      [] v.t = "bool" -> IF v.b THEN Word.True ELSE Word.False
      [] v.t = "none" -> Word.None
      [] v.t = "list" ->
            <<"[">>
            \o Join(CommaSpace, [i \in 1..Len(v.items) |-> PyRepr(v.items[i])])
            \o <<"]">>
      [] v.t = "dict" ->
            <<"{">>
            \o Join(CommaSpace,
                    [i \in 1..Len(v.items) |->
                        PyRepr(v.items[i].key) \o <<":", " ">>
                        \o PyRepr(v.items[i].value)])
            \o <<"}">>
      [] OTHER -> v.repr

\* str(v)
PyStr(v) == IF v.t = "str" THEN v.s ELSE PyRepr(v)

RECURSIVE JsonSerializable(_)
\* whether json.dumps(v) returns; it raises TypeError for a value that is no
\* str, number, bool, None, list or dict and for a dict key that is no str,
\* number, bool or None
JsonSerializable(v) ==
    CASE IsScalar(v) -> TRUE
      [] v.t = "list" ->
            \A i \in 1..Len(v.items) : JsonSerializable(v.items[i])
      [] v.t = "dict" ->
            \A i \in 1..Len(v.items) :
                /\ IsScalar(v.items[i].key)
                /\ JsonSerializable(v.items[i].value)
      [] OTHER -> FALSE

\* the key json.dumps writes for a dict key
JsonKey(k) ==
    CASE k.t = "str"  -> k.s
      [] k.t = "int"  -> Str(k.n)
      [] k.t = "bool" -> IF k.b THEN Word.true ELSE Word.false
      [] OTHER        -> Word.null

RECURSIVE JsonDumps(_)
\* json.dumps(v) for a serializable v
JsonDumps(v) ==
    CASE v.t = "str"  -> JsonString(v.s)
      [] v.t = "int"  -> Str(v.n)
      [] v.t = "bool" -> IF v.b THEN Word.true ELSE Word.false
      [] v.t = "none" -> Word.null
      [] v.t = "list" ->
            JsonArray([i \in 1..Len(v.items) |-> JsonDumps(v.items[i])])
      [] OTHER ->
            JsonObject([i \in 1..Len(v.items) |->
                          <<JsonKey(v.items[i].key),
                            JsonDumps(v.items[i].value)>>])

PyStrValue(s) == [t |-> "str", s |-> s]

\* whether the loop body raises for this value
SanitizeValueRaises(value) == value.t = "dict" /\ ~JsonSerializable(value)

\* what the loop body stores for one value
SanitizeValue(value) ==
    IF IsScalar(value) THEN value
    ELSE IF value.t = "list"
    THEN IF value.items # <<>>
            /\ \A i \in 1..Len(value.items) : IsStrIntFloat(value.items[i])
         THEN PyStrValue(Join(CommaSpace,
                              [i \in 1..Len(value.items) |->
                                  PyStr(value.items[i])]))
         ELSE PyStrValue(PyStr(value))
    ELSE IF value.t = "dict" THEN PyStrValue(JsonDumps(value))
    ELSE PyStrValue(PyStr(value))

\* whether the call raises
SanitizeRaises(md) == \E key \in DOMAIN md : SanitizeValueRaises(md[key])

\* the returned dict
SanitizeMetadata(md) == [key \in DOMAIN md |-> SanitizeValue(md[key])]

-----------------------------------------------------------------------------
(* Prose pages: _create_chunks_from_content, _scrape_lesson_page,          *)
(* _scrape_webpage, _scrape_pdf.  Fetching and the extraction of text from *)
(* HTML and PDF are done by libraries; a page is what they hand over.      *)

\* the content lengths the callers ask for
MinContentLength == 50
MinLessonLength == 100
MinWebpageLength == 100

UpperLetters ==
    <<"A", "B", "C", "D", "E", "F", "G", "H", "I", "J", "K", "L", "M", "N",
      "O", "P", "Q", "R", "S", "T", "U", "V", "W", "X", "Y", "Z">>
LowerLetters ==
    <<"a", "b", "c", "d", "e", "f", "g", "h", "i", "j", "k", "l", "m", "n",
      "o", "p", "q", "r", "s", "t", "u", "v", "w", "x", "y", "z">>

\* str.lower()
Lower(s) ==
    [i \in 1..Len(s) |->
        IF \E k \in 1..26 : UpperLetters[k] = s[i]
        THEN LowerLetters[CHOOSE k \in 1..26 : UpperLetters[k] = s[i]]
        ELSE s[i]]

\* word in s
Contains(s, word) ==
    \E i \in 1..(Len(s) - Len(word) + 1) :
        SubSeq(s, i, i + Len(word) - 1) = word

\* the characters of s at the positions in keep, in order
AtPositions(s, keep) ==
    LET Kept(p) == p \in keep
        pos == SelectSeq([p \in 1..Len(s) |-> p], Kept)
    IN  [k \in 1..Len(pos) |-> s[pos[k]]]

\* re.sub(r'\n\s*\n', '\n\n', s): in a run of whitespace that holds two
\* newlines or more, what lies from its first newline to its last becomes
\* two newlines
CollapseBlankLines(s) ==
    LET ws(p, q) == \A j \in p..q : IsWhitespace(s[j])
        between(p) == \E f \in 1..(p - 1), l \in (p + 1)..Len(s) :
                          s[f] = "\n" /\ s[l] = "\n" /\ ws(f, l)
    IN  AtPositions(s, {p \in 1..Len(s) : ~between(p)})

\* re.sub(r'[ \t]+', ' ', s): a run of spaces and tabs becomes one space
NormalizeSpaces(s) ==
    LET blank(p) == s[p] \in {" ", "\t"}
        spaced == [p \in 1..Len(s) |-> IF blank(p) THEN " " ELSE s[p]]
    IN  AtPositions(spaced, {p \in 1..Len(s) :
                                ~blank(p) \/ p = 1 \/ ~blank(p - 1)})

\* the keyword lists of the topic and of the difficulty, in the order the
\* if/elif chains test them
TopicRules ==
    << [topic |-> <<"c", "h", "o", "r", "d", "s">>,
        words |-> {<<"c", "h", "o", "r", "d">>,
                  <<"p", "r", "o", "g", "r", "e", "s", "s", "i", "o", "n">>,
                  <<"h", "a", "r", "m", "o", "n", "y">>}],
       [topic |-> <<"s", "c", "a", "l", "e", "s">>,
        words |-> {<<"s", "c", "a", "l", "e">>,
                  <<"m", "o", "d", "e">>,
                  <<"k", "e", "y">>}],
       [topic |-> <<"r", "h", "y", "t", "h", "m">>,
        words |-> {<<"r", "h", "y", "t", "h", "m">>,
                  <<"t", "e", "m", "p", "o">>,
                  <<"b", "e", "a", "t">>}],
       [topic |-> <<"t", "e", "c", "h", "n", "i", "q", "u", "e">>,
        words |-> {<<"t", "e", "c", "h", "n", "i", "q", "u", "e">>,
                  <<"f", "i", "n", "g", "e", "r", "i", "n", "g">>,
                  <<"e", "x", "e", "r", "c", "i", "s", "e">>}],
       [topic |-> <<"t", "h", "e", "o", "r", "y">>,
        words |-> {<<"t", "h", "e", "o", "r", "y">>,
                  <<"i", "n", "t", "e", "r", "v", "a", "l">>,
                  <<"n", "o", "t", "e">>}] >>

DifficultyRules ==
    << [difficulty |-> <<"b", "e", "g", "i", "n", "n", "e", "r">>,
        words |-> {<<"b", "e", "g", "i", "n", "n", "e", "r">>,
                  <<"b", "a", "s", "i", "c">>,
                  <<"i", "n", "t", "r", "o", "d", "u", "c", "t", "i", "o", "n">>,
                  <<"s", "t", "a", "r", "t">>}],
       [difficulty |-> <<"a", "d", "v", "a", "n", "c", "e", "d">>,
        words |-> {<<"a", "d", "v", "a", "n", "c", "e", "d">>,
                  <<"e", "x", "p", "e", "r", "t">>,
                  <<"c", "o", "m", "p", "l", "e", "x">>}] >>

\* were the last matching rule to win
FirstMatchLast(rules, field, content_lower, default) ==
    LET hits == {r \in 1..Len(rules) :
                    \E word \in rules[r].words :
                        Contains(content_lower, word)}
    IN  IF hits = {} THEN default
        ELSE rules[CHOOSE r \in hits : \A q \in hits : r >= q][field]

\* the label of the first rule one of whose words is in content_lower
FirstMatch(rules, field, content_lower, default) ==
    LET hits == {r \in 1..Len(rules) :
                    \E word \in rules[r].words :
                        Contains(content_lower, word)}
    IN  IF hits = {} THEN default
        ELSE rules[CHOOSE r \in hits : \A q \in hits : r <= q][field]

\* the MusicChunk objects made of the dicts _chunk_text returns
MusicChunks(source, title, text_chunks) ==
    [k \in 1..Len(text_chunks) |->
        [source      |-> source,
         title       |-> title,
         content     |-> text_chunks[k].content,
         metadata    |-> text_chunks[k].metadata,
         chunk_id    |-> text_chunks[k].chunk_id,
         token_count |-> text_chunks[k].token_count]]

\* whether _create_chunks_from_content goes on to chunk the content
ContentChunked(content) ==
    ~(content = <<>> \/ Len(content) < MinContentLength)

\* _create_chunks_from_content(content, url, site_name, content_type, title),
\* the title None being <<>> and a str s being <<s>>
CreateChunksFromContent(content, url, site_name, content_type, title) ==
    IF ~ContentChunked(content) THEN <<>>
    ELSE LET content_lower == Lower(content)
             md == [source     |-> site_name,
                    title      |-> IF title = <<>> \/ title[1] = <<>>
                                   THEN Word.content_from \o site_name
                                   ELSE title[1],
                    url        |-> url,
                    type       |-> content_type,
                    topic      |-> FirstMatch(TopicRules, "topic",
                                              content_lower, Word.general),
                    difficulty |-> FirstMatch(DifficultyRules, "difficulty",
                                              content_lower,
                                              Word.intermediate),
                    instrument |-> IF Contains(content_lower, Word.guitar)
                                   THEN Word.guitar
                                   ELSE Word.general]
         IN  MusicChunks(site_name, md.title,
                         ChunkText(content, md, chunk_size))

\* whether the body of a page scraper's try raises: the library that parses
\* the response does, or _chunk_text does
PageRaises(page, chunked) ==
    page.raises \/ (chunked /\ ChunkTextRaises(chunk_size))

\* _scrape_lesson_page(url, title, site_name) on a page whose extracted
\* content is page.text
ScrapeLessonPage(page, url, title, site_name) ==
    LET substantial == page.text # <<>> /\ Len(page.text) > MinLessonLength
        chunked == substantial /\ ContentChunked(page.text)
    IN  IF ~page.response \/ PageRaises(page, chunked) \/ ~substantial
        THEN <<>>
        ELSE CreateChunksFromContent(page.text, url, site_name, Word.lesson,
                                     <<title>>)

\* the text _scrape_webpage measures: the stripped text of the main element
\* after the two substitutions
WebpageText(page) == NormalizeSpaces(CollapseBlankLines(Strip(page.text)))

\* _scrape_webpage(url, title, source); page.text is the text of the main
\* element, and page.found is whether there is such an element
ScrapeWebpage(page, url, title, source) ==
    LET body == WebpageText(page)
        chunked == page.found /\ Len(body) > MinWebpageLength
        md == [source |-> source, title |-> title, url |-> url,
               type |-> Word.educational_material, format |-> Word.webpage]
    IN  IF ~page.response \/ PageRaises(page, chunked) \/ ~chunked THEN <<>>
        ELSE MusicChunks(source, title, ChunkText(body, md, chunk_size))

\* the text _scrape_pdf gathers: every page's text that is not empty,
\* two newlines after each
PdfText(pages) ==
    ConcatAll([p \in 1..Len(pages) |->
                  IF pages[p] = <<>> THEN <<>>
                  ELSE pages[p] \o <<"\n", "\n">>])

\* _scrape_pdf(url, title); page.pages is what extract_text() returns for
\* each page of the document
ScrapePdf(page, url, title) ==
    LET body == PdfText(page.pages)
        chunked == Strip(body) # <<>>
        md == [source |-> Word.PDF, title |-> title, url |-> url,
               type |-> Word.educational_material, format |-> Word.pdf]
    IN  IF ~page.response \/ PageRaises(page, chunked) \/ ~chunked THEN <<>>
        ELSE MusicChunks(Word.PDF, title, ChunkText(body, md, chunk_size))

\* the landing page part of _scrape_educational_site(base_url): the chunks
\* of the main content
ScrapeMainPage(page, base_url, site_name) ==
    LET chunked == page.text # <<>> /\ ContentChunked(page.text)
    IN  IF ~page.response \/ PageRaises(page, chunked) \/ page.text = <<>>
        THEN <<>>
        ELSE CreateChunksFromContent(page.text, base_url, site_name,
                                     Word.main_page, <<>>)

\* the chunks one prose path makes of a page
ScrapePage(path, page) ==
    CASE path = "main_page" -> ScrapeMainPage(page, <<"u">>, <<"s">>)
      [] path = "lesson"    ->
            ScrapeLessonPage(page, <<"u">>, <<"t">>, <<"s">>)
      [] path = "webpage"   -> ScrapeWebpage(page, <<"u">>, <<"t">>, <<"s">>)
      [] path = "pdf"       -> ScrapePdf(page, <<"u">>, <<"t">>)

-----------------------------------------------------------------------------
(* parse_freetar_ascii_tabs *)

\* the alternatives of the pattern (Verse|Chorus|Bridge|Solo|Intro|Outro),
\* matched with re.IGNORECASE
SectionMarkers ==
    <<Word.verse, Word.chorus, Word.bridge, Word.solo, Word.intro, Word.outro>>

\* the matches in content, from position p on, of the pattern whose
\* alternatives are markers, from left to right and not overlapping, each as
\* <<start, length>>; of the alternatives that match at a position the
\* first is taken; letters match in either case
RECURSIVE FindMarkers(_, _, _)
FindMarkers(markers, content, p) ==
    IF p > Len(content) THEN <<>>
    ELSE \* the alternatives that match at p
         LET hits == {a \in 1..Len(markers) :
                         /\ p + Len(markers[a]) - 1 <= Len(content)
                         /\ Lower(SubSeq(content, p, p + Len(markers[a]) - 1))
                                = markers[a]}
         IN  IF hits = {}
             THEN FindMarkers(markers, content, p + 1)
             ELSE LET length == Len(markers[CHOOSE a \in hits :
                                               \A b \in hits : a <= b])
                  IN  <<(<<p, length>>)>>
                      \o FindMarkers(markers, content, p + length)

\* re.split of the pattern, which has one group, over content: the text
\* before the first match, then each match and the text after it up to the
\* next match
ReSplit(content) ==
    LET found == FindMarkers(SectionMarkers, content, 1)
        n == Len(found)
        stop(i) == IF i < n THEN found[i + 1][1] - 1 ELSE Len(content)
    IN  <<SubSeq(content, 1, IF n = 0 THEN Len(content) ELSE found[1][1] - 1)>>
        \o ConcatAll([i \in 1..n |->
               <<SubSeq(content, found[i][1], found[i][1] + found[i][2] - 1),
                 SubSeq(content, found[i][1] + found[i][2], stop(i))>>])

\* the MusicChunk of one section
FreetarChunk(title, section, tab) ==
    LET chunk_dict == [source |-> Word.freetar, title |-> title,
                       section |-> section, tab |-> tab]
        chunk_text ==
            JsonObject(<< <<Word.source, JsonString(chunk_dict.source)>>,
                          <<Word.title, JsonString(chunk_dict.title)>>,
                          <<Word.section, JsonString(chunk_dict.section)>>,
                          <<Word.tab, JsonString(chunk_dict.tab)>> >>)
    IN  [source      |-> Word.freetar,
         title       |-> title,
         content     |-> chunk_text,
         metadata    |-> chunk_dict,
         chunk_id    |-> Md5(title \o section \o chunk_text),
         token_count |-> TokenCount(chunk_text)]

\* were the text before the first marker dropped
FreetarFileChunksNoIntro(file) ==
    IF ~file.exists \/ ~file.readable THEN <<>>
    ELSE LET segments == ReSplit(file.content)
         IN  ConcatAll([k \in 1..((Len(segments) - 1) \div 2) |->
                    IF Strip(segments[2 * k + 1]) # <<>>
                    THEN <<FreetarChunk(file.basename, Strip(segments[2 * k]),
                                        Strip(segments[2 * k + 1]))>>
                    ELSE <<>>])

\* the chunks of one file: none when the file is missing or cannot be
\* read; else an "Intro" chunk of what stands before the first marker, if
\* it is not blank, and one chunk per marker whose text is not blank
FreetarFileChunks(file) ==
    IF ~file.exists \/ ~file.readable THEN <<>>
    ELSE LET segments == ReSplit(file.content)
             title == file.basename
         IN  (IF Strip(segments[1]) # <<>>
              THEN <<FreetarChunk(title, Word.Intro, Strip(segments[1]))>>
              ELSE <<>>)
             \o ConcatAll([k \in 1..((Len(segments) - 1) \div 2) |->
                    LET section == Strip(segments[2 * k])
                        tab_text == Strip(segments[2 * k + 1])
                    IN  IF tab_text # <<>>
                        THEN <<FreetarChunk(title, section, tab_text)>>
                        ELSE <<>>])

\* the returned list
ParseFreetarAsciiTabs(files) ==
    ConcatAll([f \in 1..Len(files) |-> FreetarFileChunks(files[f])])

-----------------------------------------------------------------------------
(* chord_visualizer.py: create_chord_visuals *)

\* ChordVisualizer.parse_chord_notation(chord_string)
ParseChordNotation(chord_string) ==
    LET Without(s, c) ==
            ConcatAll([i \in 1..Len(s) |-> IF s[i] = c THEN <<>> ELSE <<s[i]>>])
        cleaned == Without(Without(Strip(chord_string), "-"), " ")
        Position(char) ==
            IF char \in {"x", "X"} THEN -1
            ELSE IF IsDigit(char) THEN CHOOSE d \in 0..9 : Digit(d) = char
            ELSE 0
        fret_positions == [i \in 1..Len(cleaned) |-> Position(cleaned[i])]
        padded == fret_positions
                  \o [i \in 1..(6 - Len(fret_positions)) |-> 0]
    IN  SubSeq(padded, 1, 6)

\* the loop of create_chord_visuals from chord i on.  fret_positions is the
\* local variable of that name: <<>> while it is unbound, else <<its value>>.
\* chord.remote says whether fetch_scales_chords_diagram returns a path,
\* chord.drawn whether create_chord_diagram returns; an exception raised in
\* the try block is caught and the loop goes on with the next chord.
RECURSIVE ChordVisualsLoop(_, _, _, _)
ChordVisualsLoop(chords_data, i, fret_positions, visual_data) ==
    IF i > Len(chords_data) THEN visual_data
    ELSE LET chord == chords_data[i]
             \* chord_name.replace('/', '_')
             safe_name == ConcatAll([k \in 1..Len(chord.name) |->
                                        IF chord.name[k] = "/" THEN <<"_">>
                                        ELSE <<chord.name[k]>>])
             \* below output_dir: the path fetch_scales_chords_diagram
             \* saved the remote image to, or that of the local drawing
             diagram_path ==
                 Word.chord_diagrams \o safe_name
                 \o (IF chord.remote THEN Word.remote_png ELSE Word.dot_png)
             Entry(positions) ==
                 [chord_name     |-> chord.name,
                  notation       |-> chord.notation,
                  fret_positions |-> positions,
                  diagram_path   |-> diagram_path,
                  source         |-> chord.source]
         IN  IF chord.remote
             THEN \* fret_positions is read as the iteration left it
                  IF fret_positions = <<>>
                  THEN ChordVisualsLoop(chords_data, i + 1, fret_positions,
                                        visual_data)
                  ELSE ChordVisualsLoop(chords_data, i + 1, fret_positions,
                                        Append(visual_data,
                                               Entry(fret_positions[1])))
             ELSE LET positions == ParseChordNotation(chord.notation)
                  IN  ChordVisualsLoop(chords_data, i + 1, <<positions>>,
                                       IF chord.drawn
                                       THEN Append(visual_data, Entry(positions))
                                       ELSE visual_data)

\* the returned list
CreateChordVisuals(chords_data) ==
    ChordVisualsLoop(chords_data, 1, <<>>, <<>>)

-----------------------------------------------------------------------------
(* The collectors.  Each loops over its URLs with a try around the work on *)
(* one URL; what it gathers is the requests made and the chunks appended.  *)

\* max_links, and the number of awesome-guitar URLs scraped
MaxLinks == 20
MaxAwesomeUrls == 10

Gathered(requests, chunks) == [requests |-> requests, chunks |-> chunks]

RECURSIVE TryEachStopping(_, _, _)
\* the loop, were it to end at the first item that yields no chunk
TryEachStopping(acc, results, i) ==
    IF i > Len(results) THEN acc
    ELSE LET next == Gathered(acc.requests \o results[i].requests,
                              acc.chunks \o results[i].chunks)
         IN  IF results[i].chunks = <<>> THEN next
             ELSE TryEachStopping(next, results, i + 1)

RECURSIVE TryEach(_, _, _)
\* for item in items: try: <body> except Exception: continue -- from item i
\* on, results[i] being what the body does for item i before it ends, by
\* reaching its end, by `continue` or by an exception
TryEach(acc, results, i) ==
    IF i > Len(results) THEN acc
    ELSE TryEach(Gathered(acc.requests \o results[i].requests,
                          acc.chunks \o results[i].chunks),
                 results, i + 1)

\* tab_content of a song page: the text of its <pre> tags (page.pages),
\* stripped, two newlines after each that is not blank; without any, the
\* stripped text of the js-tab-content div (page.text) if there is one
TabContent(page) ==
    LET pres == ConcatAll([p \in 1..Len(page.pages) |->
                    IF Strip(page.pages[p]) # <<>>
                    THEN Strip(page.pages[p]) \o <<"\n", "\n">>
                    ELSE <<>>])
    IN  IF pres # <<>> THEN pres
        ELSE IF page.found THEN Strip(page.text)
        ELSE <<>>

\* the body of the loop of scrape_ultimate_guitar_tabs for one URL.  The
\* logger.info that ends it reads text_chunks, which is unbound until a URL
\* had tab content: the NameError comes after the chunks are appended and
\* the except clause catches it.
UltimateGuitarItem(item) ==
    LET tab_content == TabContent(item.page)
        md == [source     |-> Word.UltimateGuitar,
               title      |-> item.title,
               artist     |-> item.artist,
               url        |-> item.url,
               type       |-> Word.guitar_tab,
               instrument |-> Word.guitar]
    IN  Gathered(<<item.url>>,
                 IF \/ ~item.page.response
                    \/ PageRaises(item.page, tab_content # <<>>)
                    \/ tab_content = <<>>
                 THEN <<>>
                 ELSE MusicChunks(Word.UltimateGuitar,
                                  item.artist \o Word.dash \o item.title,
                                  ChunkText(tab_content, md, chunk_size)))

\* scrape_ultimate_guitar_tabs(song_urls)
ScrapeUltimateGuitarTabs(song_urls) ==
    TryEach(Gathered(<<>>, <<>>),
            [i \in 1..Len(song_urls) |-> UltimateGuitarItem(song_urls[i])], 1)

\* the body of the lesson loop of _scrape_educational_site for one link
LessonItem(link, site_name) ==
    Gathered(<<link.url>>,
             ScrapeLessonPage(link.page, link.url, link.title, site_name))

\* _scrape_educational_site(base_url): the main page, then the first
\* max_links lesson links found on it (site.lessons)
ScrapeEducationalSite(site) ==
    LET main == site.page
        reached == main.response
                   /\ ~PageRaises(main, ContentChunked(main.text))
        links == Slice(site.lessons, 0, MaxLinks)
        lessons == TryEach(Gathered(<<>>, <<>>),
                           [i \in 1..Len(links) |->
                               LessonItem(links[i], site.site_name)], 1)
    IN  IF reached
        THEN Gathered(<<site.url>> \o lessons.requests,
                      ScrapeMainPage(main, site.url, site.site_name)
                      \o lessons.chunks)
        ELSE Gathered(<<site.url>>, <<>>)

\* scrape_educational_websites(), sites being what self.urls lead to
ScrapeEducationalWebsites(sites) ==
    TryEach(Gathered(<<>>, <<>>),
            [i \in 1..Len(sites) |-> ScrapeEducationalSite(sites[i])], 1)

\* url.endswith(suffix)
EndsWith(url, suffix) ==
    /\ Len(url) >= Len(suffix)
    /\ SubSeq(url, Len(url) - Len(suffix) + 1, Len(url)) = suffix

\* educational_keywords
EducationalKeywords ==
    {Word.theory, Word.lesson, Word.tutorial, Word.chord, Word.scale,
     Word.exercise}

\* the body of the loop of scrape_awesome_guitar_resources for one link
AwesomeItem(link) ==
    Gathered(<<link.url>>,
             IF EndsWith(link.url, Word.dot_pdf)
             THEN ScrapePdf(link.page, link.url, link.title)
             ELSE ScrapeWebpage(link.page, link.url, link.title,
                                Word.awesome_guitar))

\* scrape_awesome_guitar_resources(): readme.page is the response to the
\* request for the README, readme.links the links found in it
ScrapeAwesomeGuitarResources(readme) ==
    LET educational(link) ==
            \E keyword \in EducationalKeywords :
                Contains(Lower(link.title), keyword)
        educational_urls == SelectSeq(readme.links, educational)
        urls == Slice(educational_urls, 0, MaxAwesomeUrls)
        loop == TryEach(Gathered(<<>>, <<>>),
                        [i \in 1..Len(urls) |-> AwesomeItem(urls[i])], 1)
    IN  IF ~readme.page.response \/ readme.page.raises
        THEN Gathered(<<Word.readme_url>>, <<>>)
        ELSE Gathered(<<Word.readme_url>> \o loop.requests, loop.chunks)

\* progressions
Progressions ==
    <<Word.p1564, Word.p1645, Word.p6415, Word.p251, Word.p1451>>

\* dict.get(key, default) of an entry that is <<>> when the key is missing
GetOr(entry, default) == IF entry = <<>> THEN default ELSE entry[1]

\* the MusicChunk made of one song of a response
HookTheoryChunk(progression, song) ==
    LET name == GetOr(song.song, Word.Unknown)
        artist == GetOr(song.artist, Word.Unknown)
        content == Word.chord_progression_is \o progression \o <<"\n">>
                   \o Word.song_is \o name \o <<"\n">>
                   \o Word.artist_is \o artist \o <<"\n">>
                   \o Word.probability_is
                   \o Str(GetOr(song.probability, 0)) \o <<"\n">>
        md == [source      |-> Word.HookTheory,
               title       |-> artist \o Word.dash \o name,
               type        |-> Word.chord_progression,
               progression |-> progression,
               instrument  |-> Word.general]
    IN  [source      |-> Word.HookTheory,
         title       |-> md.title,
         content     |-> content,
         metadata    |-> md,
         chunk_id    |-> Md5(content),
         token_count |-> TokenCount(content)]

\* the body of the loop of scrape_hooktheory_data for one progression:
\* page.data is what response.json() returns, a list of items, the songs of
\* an item being <<>> when it has no key 'songs'
HookTheoryItem(progression, page) ==
    Gathered(<<Word.hooktheory_api \o progression>>,
             IF ~page.response \/ page.raises THEN <<>>
             ELSE ConcatAll([d \in 1..Len(page.data) |->
                     IF page.data[d].songs = <<>> THEN <<>>
                     ELSE [k \in 1..Len(page.data[d].songs[1]) |->
                              HookTheoryChunk(progression,
                                              page.data[d].songs[1][k])]]))

\* scrape_hooktheory_data(bearer_token), the token None being <<>>;
\* responses[i] is the response to the request for progression i
ScrapeHooktheoryData(bearer_token, responses) ==
    IF bearer_token = <<>> \/ bearer_token[1] = <<>>
    THEN Gathered(<<>>, <<>>)
    ELSE TryEach(Gathered(<<>>, <<>>),
                 [i \in 1..Len(Progressions) |->
                     HookTheoryItem(Progressions[i], responses[i])], 1)

-----------------------------------------------------------------------------
(* save_to_chromadb *)

\* batch_size
BatchSize == 100

\* StoreBatches cutting slices one item too long
StoreBatchesOverlapping(chunks) ==
    LET documents == [k \in 1..Len(chunks) |-> chunks[k].content]
        metadatas == [k \in 1..Len(chunks) |->
                         SanitizeMetadata(chunks[k].metadata)]
        ids       == Ids(chunks)
        starts    == PyRange(0, Len(chunks), BatchSize)
    IN  [b \in 1..Len(starts) |->
            [documents |-> Slice(documents, starts[b], starts[b] + BatchSize + 1),
             metadatas |-> Slice(metadatas, starts[b], starts[b] + BatchSize + 1),
             ids       |-> Slice(ids, starts[b], starts[b] + BatchSize + 1)]]

\* StoreBatches handing over the metadata as the chunks hold it
StoreBatchesUnsanitized(chunks) ==
    LET documents == [k \in 1..Len(chunks) |-> chunks[k].content]
        metadatas == [k \in 1..Len(chunks) |-> chunks[k].metadata]
        ids       == Ids(chunks)
        starts    == PyRange(0, Len(chunks), BatchSize)
    IN  [b \in 1..Len(starts) |->
            [documents |-> Slice(documents, starts[b], starts[b] + BatchSize),
             metadatas |-> Slice(metadatas, starts[b], starts[b] + BatchSize),
             ids       |-> Slice(ids, starts[b], starts[b] + BatchSize)]]

\* the batches the loop cuts from the three parallel lists, in the order it
\* submits them
StoreBatches(chunks) ==
    LET documents == [k \in 1..Len(chunks) |-> chunks[k].content]
        metadatas == [k \in 1..Len(chunks) |->
                         SanitizeMetadata(chunks[k].metadata)]
        ids       == Ids(chunks)
        starts    == PyRange(0, Len(chunks), BatchSize)
    IN  [b \in 1..Len(starts) |->
            [documents |-> Slice(documents, starts[b], starts[b] + BatchSize),
             metadatas |-> Slice(metadatas, starts[b], starts[b] + BatchSize),
             ids       |-> Slice(ids, starts[b], starts[b] + BatchSize)]]

\* whether collection.add rejects the batch whatever the state of the index:
\* ids that occur twice in one call are refused with DuplicateIDError
AddRejects(batch) ==
    \E i, j \in 1..Len(batch.ids) : i # j /\ batch.ids[i] = batch.ids[j]

\* the index after collection.add accepted the batch: an entry is made for
\* every id the index does not hold; add does not touch the entry of an id
\* it holds already
CollectionAdd(index, batch) ==
    [id \in DOMAIN index \cup {batch.ids[i] : i \in 1..Len(batch.ids)} |->
        IF id \in DOMAIN index THEN index[id]
        ELSE LET i == CHOOSE i \in 1..Len(batch.ids) : batch.ids[i] = id
             IN  [document |-> batch.documents[i],
                  metadata |-> batch.metadatas[i]]]

RECURSIVE AddBatchesAborting(_, _, _, _)
\* the loop, were a failed insert to end it
AddBatchesAborting(st, batches, failing, b) ==
    IF b > Len(batches) THEN st
    ELSE LET raised == b \in failing \/ AddRejects(batches[b])
             submitted == Append(st.submitted, batches[b])
         IN  IF raised
             THEN [st EXCEPT !.submitted = submitted,
                             !.failed = st.failed \cup {b}]
             ELSE AddBatchesAborting(
                      [st EXCEPT !.submitted = submitted,
                                 !.index = CollectionAdd(st.index, batches[b])],
                      batches, failing, b + 1)

RECURSIVE AddBatches(_, _, _, _)
\* the loop from batch b on: st holds the index, the batches handed to
\* collection.add so far and the numbers of those whose insert raised.  The
\* insert of a batch in failing raises, as does one the index rejects; the
\* except clause logs the error and the loop goes on.
AddBatches(st, batches, failing, b) ==
    IF b > Len(batches) THEN st
    ELSE LET raised == b \in failing \/ AddRejects(batches[b])
         IN  AddBatches(
                 [index     |-> IF raised THEN st.index
                                ELSE CollectionAdd(st.index, batches[b]),
                  submitted |-> Append(st.submitted, batches[b]),
                  failed    |-> IF raised THEN st.failed \cup {b}
                                ELSE st.failed],
                 batches, failing, b + 1)

\* whether save_to_chromadb raises: the metadatas are sanitized before the
\* loop, outside its try
SaveToChromadbRaises(chunks) ==
    chunks # <<>> /\ \E k \in 1..Len(chunks) : SanitizeRaises(chunks[k].metadata)

-----------------------------------------------------------------------------
(* run_full_scrape *)

\* the calls run_full_scrape makes, in order: a collector, the snapshot of
\* what it returned, ..., the store, the combined snapshot, the summary;
\* were the combined snapshot written before the store
RunStepsSnapshotFirst(hooktheory_token) ==
    << [op |-> "collect", name |-> "educational"],
       [op |-> "json", name |-> "educational_websites"],
       [op |-> "collect", name |-> "ultimate_guitar"],
       [op |-> "json", name |-> "ultimate_guitar_tabs"],
       [op |-> "collect", name |-> "awesome"],
       [op |-> "json", name |-> "awesome_guitar_resources"] >>
    \o (IF hooktheory_token = <<>> \/ hooktheory_token[1] = <<>> THEN <<>>
        ELSE << [op |-> "collect", name |-> "hooktheory"],
                [op |-> "json", name |-> "hooktheory_progressions"] >>)
    \o << [op |-> "json", name |-> "complete_music_dataset"],
          [op |-> "store", name |-> "guitar_tools"],
          [op |-> "summary", name |-> "summary"] >>

\* were the HookTheory collector called whatever the token
RunStepsAlwaysHook(hooktheory_token) ==
    << [op |-> "collect", name |-> "educational"],
       [op |-> "json", name |-> "educational_websites"],
       [op |-> "collect", name |-> "ultimate_guitar"],
       [op |-> "json", name |-> "ultimate_guitar_tabs"],
       [op |-> "collect", name |-> "awesome"],
       [op |-> "json", name |-> "awesome_guitar_resources"],
       [op |-> "collect", name |-> "hooktheory"],
       [op |-> "json", name |-> "hooktheory_progressions"],
       [op |-> "store", name |-> "guitar_tools"],
       [op |-> "json", name |-> "complete_music_dataset"],
       [op |-> "summary", name |-> "summary"] >>

\* the calls run_full_scrape(hooktheory_token) makes, in order, the token
\* None being <<>>
RunSteps(hooktheory_token) ==
    << [op |-> "collect", name |-> "educational"],
       [op |-> "json", name |-> "educational_websites"],
       [op |-> "collect", name |-> "ultimate_guitar"],
       [op |-> "json", name |-> "ultimate_guitar_tabs"],
       [op |-> "collect", name |-> "awesome"],
       [op |-> "json", name |-> "awesome_guitar_resources"] >>
    \o (IF hooktheory_token = <<>> \/ hooktheory_token[1] = <<>> THEN <<>>
        ELSE << [op |-> "collect", name |-> "hooktheory"],
                [op |-> "json", name |-> "hooktheory_progressions"] >>)
    \o << [op |-> "store", name |-> "guitar_tools"],
          [op |-> "json", name |-> "complete_music_dataset"],
          [op |-> "summary", name |-> "summary"] >>

\* the chunks as save_to_chromadb reads them: every metadata value of a
\* web chunk is a str
StoredChunks(chunks) ==
    [k \in 1..Len(chunks) |->
        [content  |-> chunks[k].content,
         metadata |-> [key \in DOMAIN chunks[k].metadata |->
                          PyStrValue(chunks[k].metadata[key])],
         chunk_id |-> chunks[k].chunk_id]]

\* the columns of pd.DataFrame([chunk.to_dict() for chunk in chunks])
DataFrameColumns ==
    {"source", "title", "content", "metadata", "chunk_id", "token_count"}

RECURSIVE SumTokens(_)
\* df['token_count'].sum()
SumTokens(chunks) ==
    IF chunks = <<>> THEN 0
    ELSE Head(chunks).token_count + SumTokens(Tail(chunks))

\* series.value_counts(): the number of rows per value
ValueCounts(values) ==
    [v \in {values[k] : k \in 1..Len(values)} |->
        Cardinality({k \in 1..Len(values) : values[k] = v})]

\* what _print_summary(chunks) prints: nothing for an empty list; else the
\* totals (the average is total_tokens over total_chunks), the chunks per
\* source and, if df has a column 'type', the chunks per type
PrintSummary(chunks) ==
    IF chunks = <<>> THEN <<>>
    ELSE << [total_chunks |-> Len(chunks),
             total_tokens |-> SumTokens(chunks),
             by_source    |-> <<ValueCounts([k \in 1..Len(chunks) |->
                                                chunks[k].source])>>,
             by_type      |-> IF "type" \in DataFrameColumns
                              THEN <<ValueCounts([k \in 1..Len(chunks) |->
                                         DictGet(chunks[k].metadata, "type",
                                                 <<"u", "n", "k", "n", "o",
                                                   "w", "n">>)])>>
                              ELSE <<>>] >>

-----------------------------------------------------------------------------
(* Inputs *)

ChunkSizes == (-1)..MaxChunkSize

\* a metadata dict without the key 'source', and one with it
Metadatas ==
    { [url |-> <<"u">>],
      [source |-> <<"a">>, url |-> <<"u">>] }

Kinds == {"prose", "tuxguitar", "midi", "metadata", "store", "page",
          "collect", "run", "request", "freetar", "copy", "visual"}

\* the beats a voice may hold: a rest, one note, a chord of two notes
Beats ==
    { [notes |-> <<>>, chord |-> <<>>, duration |-> <<4>>],
      [notes |-> <<[string |-> 1, value |-> 0]>>, chord |-> <<>>,
       duration |-> <<8>>],
      [notes |-> <<[string |-> 5, value |-> 3], [string |-> 4, value |-> 12]>>,
       chord |-> <<(<<"C">>)>>, duration |-> <<>>] }

\* a song of two tracks whose measures, voices and beats are all alike
Songs ==
    { [title  |-> title,
       tempo  |-> 90,
       tracks |->
         [t \in 1..2 |->
            [isPercussionTrack |-> (t = 1 /\ perc),
             measures |->
               [m \in 1..nm |->
                  [voices |-> [v \in 1..nv |->
                                 [beats |-> [b \in 1..nb |-> beat]]]]]]]] :
      title \in {<<>>, <<"a">>}, perc \in BOOLEAN, nm \in 1..MaxMeasures,
      nv \in 1..MaxVoices, nb \in 0..MaxBeats, beat \in Beats }

NoSong == [title |-> <<>>, tempo |-> 90, tracks |-> <<>>]

TuxGoodFiles ==
    { [exists |-> TRUE, readable |-> TRUE, basename |-> <<"f">>, song |-> s] :
      s \in Songs }

TuxBadFiles ==
    { [exists |-> e, readable |-> FALSE, basename |-> <<"g">>, song |-> NoSong] :
      e \in BOOLEAN }

\* one file, or a bad file followed by a good one of a single measure
TuxInputs ==
    {<<f>> : f \in TuxGoodFiles \cup TuxBadFiles}
    \cup {<<bad, f>> : bad \in TuxBadFiles,
                       f \in {g \in TuxGoodFiles :
                                Len(g.song.tracks[2].measures) = 1}}

\* what a stream may hold: nothing, one note, a note and a chord
Elements ==
    { <<>>,
      << <<(<<"C", "4">>)>> >>,
      << <<(<<"C", "4">>)>>, <<(<<"E", "4">>), (<<"G", "4">>)>> >> }

\* a score whose parts and measures are all alike; the measures are
\* numbered from first
Scores ==
    { [tempo |-> tempo,
       parts |->
         [p \in 1..np |->
            [elements |-> els,
             measures |->
               [m \in 1..nm |-> [number |-> first + m - 1,
                                 elements |-> els]]]]] :
      tempo \in {<<>>, <<90>>}, np \in 1..MaxParts, nm \in 0..MaxMeasures,
      first \in 0..1, els \in Elements }

NoScore == [tempo |-> <<>>, parts |-> <<>>]

MidiGoodFiles ==
    { [exists |-> TRUE, readable |-> TRUE, basename |-> <<"f">>, score |-> s] :
      s \in Scores }

MidiBadFiles ==
    { [exists |-> e, readable |-> FALSE, basename |-> <<"g">>,
       score |-> NoScore] : e \in BOOLEAN }

\* one file, or a bad file followed by a good one of a single part
MidiInputs ==
    {<<f>> : f \in MidiGoodFiles \cup MidiBadFiles}
    \cup {<<bad, f>> : bad \in MidiBadFiles,
                       f \in {g \in MidiGoodFiles : Len(g.score.parts) = 1}}

\* one file, or a file that is missing or unreadable followed by a good
\* one.  A file's text is up to MaxPieces pieces, each a marker, a newline,
\* a chord, or the end of a marker that begins with the last letter of
\* another; one longer text has a lead and two sections
FreetarInputs ==
    LET pieces == { <<"S", "o", "l", "o">>, Word.verse, <<"\n">>, <<"G">>,
                    <<"u", "t", "r", "o">> }
        TabContents ==
            UNION { { ConcatAll(choice) : choice \in [1..n -> pieces] } :
                    n \in 0..MaxPieces }
        good(c) == [exists |-> TRUE, readable |-> TRUE, basename |-> <<"f">>,
                    content |-> c]
        bad(e) == [exists |-> e, readable |-> FALSE, basename |-> <<"g">>,
                   content |-> <<>>]
    IN  {<<good(c)>> : c \in TabContents}
        \cup {<<good(<<"G", "\n">> \o Word.verse \o <<"\n", "G", "\n">>
                     \o <<"S", "o", "l", "o", " ", "G">>)>>}
        \cup {<<bad(e)>> : e \in BOOLEAN}
        \cup {<<bad(e), good(<<"G">> \o Word.verse \o <<"G">>)>> :
                 e \in BOOLEAN}

\* the values a metadata dict may hold
ScalarValues ==
    { [t |-> "str", s |-> <<"a">>], [t |-> "int", n |-> 1],
      [t |-> "int", n |-> 23], [t |-> "bool", b |-> TRUE], [t |-> "none"] }

ObjectValues == { [t |-> "set", repr |-> <<"{", "1", "}">>] }

LeafValues == ScalarValues \cup ObjectValues

ListsOf(values) ==
    { [t |-> "list", items |-> items] :
      items \in UNION {[1..k -> values] : k \in 0..MaxItems} }

DictsOf(keys, values) ==
    { [t |-> "dict", items |-> items] :
      items \in UNION {[1..k -> [key : keys, value : values]] : k \in 0..1} }

NestedValues ==
    LeafValues
    \cup { [t |-> "list", items |-> <<[t |-> "int", n |-> 1]>>],
           [t |-> "dict",
            items |-> <<[key |-> [t |-> "str", s |-> <<"a">>],
                         value |-> [t |-> "set", repr |-> <<"{", "1", "}">>]]>>] }

MetadataValues ==
    LeafValues
    \cup ListsOf(NestedValues)
    \cup DictsOf({[t |-> "str", s |-> <<"a">>], [t |-> "int", n |-> 1],
                  [t |-> "tuple", repr |-> <<"(", "1", ",", ")">>]},
                 NestedValues)

\* a dict of one key, or of two with a scalar under the first
SanitizeInputs ==
    { [key \in {"notes"} |-> v] : v \in MetadataValues }
    \cup { [key \in {"source", "notes"} |->
              IF key = "source" THEN [t |-> "str", s |-> <<"a">>] ELSE v] :
           v \in MetadataValues }

\* the chunks save_to_chromadb is given: chunk k of n, whose chunk_id is the
\* hash of its content; the first holds metadata md, and with d > 0 the
\* chunk d places after it is a second copy of the first
StoreChunk(k, md) ==
    [content  |-> <<"d">> \o Str(k),
     metadata |-> md,
     chunk_id |-> Md5(<<"d">> \o Str(k))]

StoreChunks(n, d, md) ==
    [k \in 1..n |->
        IF k = 1 \/ (d > 0 /\ k = 1 + d)
        THEN StoreChunk(1, md)
        ELSE StoreChunk(k, [source |-> [t |-> "str", s |-> <<"a">>]])]

StoreMetadatas ==
    { [source |-> [t |-> "str", s |-> <<"a">>]],
      [source |-> [t |-> "str", s |-> <<"a">>],
       notes  |-> [t |-> "list", items |-> <<[t |-> "int", n |-> 1],
                                             [t |-> "int", n |-> 23]>>]],
      [source |-> [t |-> "str", s |-> <<"a">>],
       notes  |-> [t |-> "dict",
                   items |-> <<[key |-> [t |-> "str", s |-> <<"a">>],
                                value |-> [t |-> "set",
                                           repr |-> <<"{", "1", "}">>]]>>]] }

\* the lengths of the list: none, and those at, next to and half way
\* between the multiples of batch_size
StoreSizes ==
    {0} \cup { n \in { b * BatchSize + e :
                         b \in 0..MaxBatches,
                         e \in {-1, 0, 1, BatchSize \div 2} } : n > 0 }

StoreInputs ==
    { StoreChunks(n, 0, md) : n \in StoreSizes, md \in StoreMetadatas }
    \cup { StoreChunks(n, d, [source |-> [t |-> "str", s |-> <<"a">>]]) :
             n \in StoreSizes, d \in {1, BatchSize} }

\* the prose a page holds: n characters, the characters of gap after the
\* first
Prose(n, gap) ==
    [i \in 1..n |-> IF i - 1 \in 1..Len(gap) THEN gap[i - 1] ELSE "a"]

\* lengths at and next to the lengths the callers ask for
ProseLengths ==
    {0, 1} \cup { m + e : m \in {MinContentLength, MinLessonLength,
                                  MinWebpageLength},
                          e \in {-1, 0, 1, 2} }

ProseTexts ==
    { Prose(n, gap) :
        n \in ProseLengths,
        gap \in {<<>>, <<" ", " ">>, <<"\n", " ", "\t", "\n">>} }
    \cup {<<" ", "\n">>}

\* prose of MinContentLength characters followed by keywords of any set of
\* topics and of difficulties, capitalised, those of the later rules first
KeywordTexts ==
    LET Pick(words, n) ==
            LET first == CHOOSE w \in words : TRUE
            IN  IF n = 1 THEN first ELSE CHOOSE w \in words \ {first} : TRUE
        Capital(word) ==
            <<UpperLetters[CHOOSE k \in 1..26 : LowerLetters[k] = word[1]]>>
            \o Tail(word)
        Line(rules, picked, n) ==
            ConcatAll([k \in 1..Len(rules) |->
                          IF (Len(rules) + 1 - k) \in picked
                          THEN <<" ">> \o Capital(Pick(rules[Len(rules) + 1 - k].words, n))
                          ELSE <<>>])
    IN  { Prose(MinContentLength, <<>>) \o Line(TopicRules, topics, n)
              \o Line(DifficultyRules, difficulties, n) :
            topics \in SUBSET (1..Len(TopicRules)),
            difficulties \in SUBSET (1..Len(DifficultyRules)),
            n \in 1..2 }

ProsePaths == {"main_page", "lesson", "webpage", "pdf"}

\* what the libraries hand over for one URL: no response (_make_request
\* returned None), a response the parser raises on, or the text extracted
NoPage ==
    [response |-> FALSE, raises |-> FALSE, found |-> FALSE, text |-> <<>>,
     pages |-> <<>>]

Pages ==
    { NoPage, [NoPage EXCEPT !.response = TRUE, !.raises = TRUE],
      [NoPage EXCEPT !.response = TRUE] }
    \cup { [response |-> TRUE, raises |-> FALSE, found |-> TRUE, text |-> t,
            pages |-> IF blank THEN <<<<>>, t>> ELSE <<t>>] :
             t \in ProseTexts, blank \in BOOLEAN }
    \cup { [response |-> TRUE, raises |-> FALSE, found |-> TRUE, text |-> t,
            pages |-> <<t>>] : t \in KeywordTexts }

\* a page whose text is t
GoodPage(t) ==
    [response |-> TRUE, raises |-> FALSE, found |-> TRUE, text |-> t,
     pages |-> <<t>>]

RaisingPage == [NoPage EXCEPT !.response = TRUE, !.raises = TRUE]

\* prose long enough for every path
LongProse == Prose(MinLessonLength + 1, <<>>)

\* lists of up to MaxUrls links, link i with URL u<i> and the page chosen
\* for it
LinkLists(pages_of_link) ==
    UNION { { [i \in 1..n |->
                 [url |-> <<"u">> \o Str(i), title |-> <<"t">>,
                  artist |-> <<"r">>, page |-> choice[i]]] :
              choice \in [1..n -> pages_of_link] } : n \in 0..MaxUrls }

\* the response to the request for one progression: none, one whose body
\* is no JSON, or a list of an item without songs and one with two
HookTheoryPages ==
    { [response |-> FALSE, raises |-> FALSE, data |-> <<>>],
      [response |-> TRUE, raises |-> TRUE, data |-> <<>>],
      [response |-> TRUE, raises |-> FALSE,
       data |-> << [songs |-> <<>>],
                   [songs |-> << << [song |-> <<<<"s">>>>,
                                     artist |-> <<<<"r">>>>,
                                     probability |-> <<7>>],
                                    [song |-> <<>>, artist |-> <<>>,
                                     probability |-> <<>>] >> >>] >>] }

\* the chords create_chord_visuals is given: up to MaxChords of a chord of
\* the database, an extracted one with separators in its notation and one
\* with a slash in its name and a short notation, each with what happens
\* to it
ChordsData ==
    LET Chords ==
            { [name |-> <<"C">>, source |-> Word.database,
               notation |-> <<"0", "3", "2", "0", "1", "0">>],
              [name |-> <<"D">>, source |-> Word.extracted,
               notation |-> <<"x", "-", "0", "-", "2", "3">>],
              [name |-> <<"A", "/", "E">>, source |-> Word.extracted,
               notation |-> <<"X", "0", "2">>] }
        Cases ==
            { [name |-> c.name, source |-> c.source, notation |-> c.notation,
               remote |-> remote, drawn |-> drawn] :
              c \in Chords, remote \in BOOLEAN, drawn \in BOOLEAN }
    IN  UNION { [1..n -> Cases] : n \in 0..MaxChords }

\* the bearer token: None, the empty string, a token
Tokens == {<<>>, <<<<>>>>, <<<<"k">>>>}

Collectors == {"educational", "ultimate_guitar", "awesome", "hooktheory"}

\* what a collector can meet.  A song page: no response, one the parser
\* raises on, one with a <pre>, one with the div only, one with neither.
\* One site with its lesson links, or up to MaxUrls sites without any.  The
\* README and the links found in it: to a web page, to a PDF, to a URL that
\* does not answer, and one whose title names nothing educational.  A bearer
\* token and the response to each progression.
CollectInputs(collector) ==
    LET SongPages ==
            { NoPage, RaisingPage, GoodPage(<<"a", "b">>),
              [GoodPage(<<"a", "b">>) EXCEPT !.pages = <<>>],
              [GoodPage(<<>>) EXCEPT !.pages = <<>>, !.found = FALSE] }
        LessonPages ==
            {NoPage, RaisingPage, GoodPage(<<"a", "b">>), GoodPage(LongProse)}
        SiteLists ==
            { <<[url |-> <<"s">>, site_name |-> <<"s">>,
                 page |-> GoodPage(LongProse), lessons |-> links]>> :
                links \in LinkLists(LessonPages) }
            \cup { [i \in 1..Len(links) |->
                       [url |-> links[i].url, site_name |-> links[i].url,
                        page |-> links[i].page, lessons |-> <<>>]] :
                     links \in LinkLists({NoPage, RaisingPage,
                                          GoodPage(LongProse)}) }
        kinds == {"web", "pdf", "dead", "other"}
        link(i, k) ==
            [url   |-> <<"u">> \o Str(i)
                       \o (IF k = "pdf" THEN Word.dot_pdf ELSE <<>>),
             title |-> IF k = "other" THEN <<"X">> ELSE Word.chord,
             page  |-> IF k = "dead" THEN NoPage ELSE GoodPage(LongProse)]
        Readmes ==
            { [page |-> NoPage, links |-> <<>>] }
            \cup UNION { { [page  |-> GoodPage(<<>>),
                            links |-> [i \in 1..n |-> link(i, choice[i])]] :
                           choice \in [1..n -> kinds] } : n \in 0..MaxUrls }
        HookTheoryInputs ==
            { [token |-> token, responses |-> responses] :
                token \in Tokens,
                responses \in [1..Len(Progressions) -> HookTheoryPages] }
    IN  CASE collector = "educational"     -> SiteLists
          [] collector = "ultimate_guitar" -> LinkLists(SongPages)
          [] collector = "awesome"         -> Readmes
          [] collector = "hooktheory"      -> HookTheoryInputs

\* what the collector gathers
Collect(collector, input) ==
    CASE collector = "educational"     -> ScrapeEducationalWebsites(input)
      [] collector = "ultimate_guitar" -> ScrapeUltimateGuitarTabs(input)
      [] collector = "awesome"         -> ScrapeAwesomeGuitarResources(input)
      [] collector = "hooktheory"      ->
            ScrapeHooktheoryData(input.token, input.responses)

\* what the URLs of a collector lead to in a run of run_full_scrape: every
\* URL fails, or some give chunks; a site whose main page is found again
\* among its lesson links; a response that lists one song twice
RunInputs(collector, token) ==
    LET song(i, page) == [url |-> <<"u">> \o Str(i), title |-> <<"t">>,
                          artist |-> <<"r">>, page |-> page]
        site(page, lessons) == [url |-> <<"s">>, site_name |-> <<"s">>,
                                page |-> page, lessons |-> lessons]
        home == GoodPage(LongProse)
        listed == [song |-> <<<<"s">>>>, artist |-> <<<<"r">>>>,
                   probability |-> <<7>>]
    IN  CASE collector = "educational" ->
                { <<site(NoPage, <<>>)>>,
                  <<site(NoPage, <<>>),
                    site(GoodPage(Prose(MinContentLength, <<>>)), <<>>)>>,
                  <<site(home, <<[url |-> <<"s">>, title |-> <<"t">>,
                                  artist |-> <<"r">>, page |-> home]>>)>> }
          [] collector = "ultimate_guitar" ->
                { <<song(1, NoPage), song(2, NoPage), song(3, NoPage)>>,
                  <<song(1, GoodPage(<<"a", "b">>)), song(2, RaisingPage),
                    song(3, GoodPage(<<"a">>))>> }
          [] collector = "awesome" ->
                { [page |-> NoPage, links |-> <<>>],
                  [page  |-> GoodPage(<<>>),
                   links |-> <<[url   |-> <<"u">> \o Word.dot_pdf,
                                title |-> Word.chord,
                                page  |-> GoodPage(<<"a", "b">>)]>>] }
          [] collector = "hooktheory" ->
                { [token |-> token,
                   responses |-> [i \in 1..Len(Progressions) |-> page]] :
                  page \in HookTheoryPages
                           \cup {[response |-> TRUE, raises |-> FALSE,
                                   data |-> <<[songs |->
                                                 <<(<<listed, listed>>)>>]>>]} }

-----------------------------------------------------------------------------
(* Actions *)

\* the scraper after __init__, and the item it is given.  __init__ stores
\* any chunk_size it is passed; the parsers and the sanitizer do not read
\* it, so that a single positive value is drawn for them.
Init ==
    /\ kind \in Kinds
    /\ chunk_size \in CASE kind = "prose" -> ChunkSizes
                        [] kind = "copy"  -> {1, MaxChunkSize}
                        [] OTHER          -> {MaxChunkSize}
    /\ now = RequestDelay
    /\ last_request_time = 0
    /\ CASE kind = "prose" -> text \in Texts /\ metadata \in Metadatas
         [] kind = "copy"  -> /\ text \in {t \in Texts : Len(t) <= 3}
                              /\ metadata \in Metadatas
         [] OTHER          -> text = <<>> /\ metadata = [url |-> <<"u">>]
    /\ ct_refs = <<>>
    /\ ct_heap = [object \in {0} |-> metadata]
    /\ ct_touched = {}
    /\ IF kind = "tuxguitar"
       THEN gp_filepaths \in TuxInputs
       ELSE gp_filepaths = <<>>
    /\ IF kind = "midi"
       THEN midi_filepaths \in MidiInputs
       ELSE midi_filepaths = <<>>
    /\ IF kind = "freetar"
       THEN tab_filepaths \in FreetarInputs
       ELSE tab_filepaths = <<>>
    /\ ct_calls = 0
    /\ ct_outcome = "none"
    /\ ct_windows = <<>>
    /\ ct_chunks = <<>>
    /\ ct_first = [ids |-> <<>>, at |-> 0]
    /\ parsed = FALSE
    /\ produced = <<>>
    /\ IF kind = "metadata"
       THEN sn_metadata \in SanitizeInputs
       ELSE sn_metadata = <<>>
    /\ sn_outcome = "none"
    /\ sn_sanitized = <<>>
    /\ IF kind = "store"
       THEN st_chunks \in StoreInputs
       ELSE st_chunks = <<>>
    /\ st_calls = 0
    /\ st_outcome = "none"
    /\ st_submitted = <<>>
    /\ st_failed = {}
    /\ collection = <<>>
    /\ IF kind = "page"
       THEN pg_path \in ProsePaths /\ pg_page \in Pages
       ELSE pg_path = "none" /\ pg_page = NoPage
    /\ pg_done = FALSE
    /\ pg_chunks = <<>>
    /\ IF kind = "collect"
       THEN /\ co_collector \in Collectors
            /\ co_input \in CollectInputs(co_collector)
       ELSE co_collector = "none" /\ co_input = <<>>
    /\ co_done = FALSE
    /\ co_requests = <<>>
    /\ co_chunks = <<>>
    /\ IF kind = "run"
       THEN rn_token \in Tokens /\ rn_outcome = "running"
       ELSE rn_token = <<>> /\ rn_outcome = "none"
    /\ rn_pc = 1
    /\ rn_last = <<>>
    /\ rn_all_chunks = <<>>
    /\ rn_events = <<>>
    /\ rn_requests = <<>>
    /\ rn_report = <<>>
    /\ rq_log = <<>>
    /\ IF kind = "visual"
       THEN cv_chords_data \in ChordsData
       ELSE cv_chords_data = <<>>
    /\ cv_done = FALSE
    /\ cv_visual_data = <<>>

\* _rate_limit alone: sleep until request_delay has passed since the last
\* request, then note the time
RateLimit ==
    /\ kind = "prose"
    /\ \E current_time \in now..MaxTime :
         \E woken \in AfterRateLimit(current_time, last_request_time) :
             /\ now' = woken
             /\ last_request_time' = woken
    /\ UNCHANGED <<chunk_size, kind, visuals, rq_log, chunker, parser, sanitizer,
                   store, prose, collect, run>>

\* one call self._make_request(url): _rate_limit, then the GET, which takes
\* some time and gives a response or, on a RequestException, None
MakeRequest ==
    /\ kind = "request"
    /\ \E current_time \in now..MaxTime, ok \in BOOLEAN, took \in 0..RequestDelay :
         \E woken \in AfterRateLimit(current_time, last_request_time) :
             /\ woken + took <= MaxTime
             /\ last_request_time' = woken
             /\ rq_log' = Append(rq_log, [start |-> woken, ok |-> ok])
             /\ now' = woken + took
    /\ UNCHANGED <<chunk_size, kind, visuals, chunker, parser, sanitizer, store,
                   prose, collect, run>>

\* one call self._chunk_text(text, metadata)
ChunkTextCall ==
    /\ kind \in {"prose", "copy"}
    /\ ct_calls < 2
    /\ ct_calls' = ct_calls + 1
    /\ IF ChunkTextRaises(chunk_size)
       THEN /\ ct_outcome' = "ValueError"
            /\ ct_windows' = <<>>
            /\ ct_chunks' = <<>>
       ELSE /\ ct_outcome' = "returned"
            /\ ct_windows' = ChunkWindows(Encode(text), chunk_size)
            /\ ct_chunks' = ChunkText(text, metadata, chunk_size)
    /\ ct_first' = IF ct_calls = 0
                   THEN [ids |-> Ids(ct_chunks'), at |-> now]
                   ELSE ct_first
    /\ ct_refs' = MetadataCopies(Len(ct_chunks'))
    /\ ct_heap' = [object \in {0} \cup {ct_refs'[k] : k \in 1..Len(ct_refs')}
                      |-> ct_heap[0]]
    /\ ct_touched' = {}
    /\ UNCHANGED <<chunk_size, kind, visuals, clock, text, metadata, parser, sanitizer,
                   store, prose, collect, run>>

\* the caller adds a key to the metadata of one returned chunk, removes one
\* or replaces its value
ChangeChunkMetadata ==
    /\ kind = "copy"
    /\ ct_touched = {}
    /\ \E k \in 1..Len(ct_refs) :
         LET md == ct_heap[ct_refs[k]]
             changed ==
                 { [key \in DOMAIN md \cup {"added"} |->
                       IF key = "added" THEN <<"v">> ELSE md[key]] }
                 \cup { [key \in DOMAIN md \ {gone} |-> md[key]] :
                          gone \in DOMAIN md }
                 \cup { [md EXCEPT ![key] = <<"v">>] : key \in DOMAIN md }
         IN  /\ \E new \in changed :
                    ct_heap' = [ct_heap EXCEPT ![ct_refs[k]] = new]
             /\ ct_touched' = {k}
    /\ UNCHANGED <<chunk_size, kind, visuals, clock, text, metadata, ct_calls,
                   ct_outcome, ct_windows, ct_chunks, ct_first, ct_refs,
                   parser, sanitizer, store, prose, collect, run>>

\* one call self.parse_tuxguitar_files(gp_filepaths)
ParseTuxGuitarCall ==
    /\ kind = "tuxguitar"
    /\ ~parsed
    /\ parsed' = TRUE
    /\ produced' = ParseTuxGuitarFiles(gp_filepaths)
    /\ UNCHANGED <<chunk_size, kind, visuals, clock, chunker, gp_filepaths,
                   midi_filepaths, tab_filepaths, sanitizer, store, prose,
                   collect, run>>

\* one call self.parse_midi_files(midi_filepaths)
ParseMidiCall ==
    /\ kind = "midi"
    /\ ~parsed
    /\ parsed' = TRUE
    /\ produced' = ParseMidiFiles(midi_filepaths)
    /\ UNCHANGED <<chunk_size, kind, visuals, clock, chunker, gp_filepaths,
                   midi_filepaths, tab_filepaths, sanitizer, store, prose,
                   collect, run>>

\* one call self.parse_freetar_ascii_tabs(tab_filepaths)
ParseFreetarCall ==
    /\ kind = "freetar"
    /\ ~parsed
    /\ parsed' = TRUE
    /\ produced' = ParseFreetarAsciiTabs(tab_filepaths)
    /\ UNCHANGED <<chunk_size, kind, visuals, clock, chunker, gp_filepaths,
                   midi_filepaths, tab_filepaths, sanitizer, store, prose,
                   collect, run>>

\* one call self._sanitize_metadata_for_chromadb(sn_metadata)
SanitizeCall ==
    /\ kind = "metadata"
    /\ sn_outcome = "none"
    /\ IF SanitizeRaises(sn_metadata)
       THEN /\ sn_outcome' = "TypeError"
            /\ sn_sanitized' = <<>>
       ELSE /\ sn_outcome' = "returned"
            /\ sn_sanitized' = SanitizeMetadata(sn_metadata)
    /\ UNCHANGED <<chunk_size, kind, visuals, clock, chunker, parser, sn_metadata,
                   store, prose, collect, run>>

\* one call self.save_to_chromadb(st_chunks); the inserts of any of its
\* batches may raise
SaveToChromadbCall ==
    /\ kind = "store"
    /\ st_calls < 2
    /\ st_calls' = st_calls + 1
    /\ IF st_chunks = <<>>
       THEN /\ st_outcome' = "returned"
            /\ st_submitted' = <<>>
            /\ st_failed' = {}
            /\ UNCHANGED collection
       ELSE IF SaveToChromadbRaises(st_chunks)
       THEN /\ st_outcome' = "TypeError"
            /\ st_submitted' = <<>>
            /\ st_failed' = {}
            /\ UNCHANGED collection
       ELSE \E batches \in {StoreBatches(st_chunks)} :
            \E failing \in SUBSET (1..Len(batches)) :
            \E st \in {AddBatches([index |-> collection,
                                   submitted |-> <<>>, failed |-> {}],
                                  batches, failing, 1)} :
                /\ st_outcome' = "returned"
                /\ st_submitted' = st.submitted
                /\ st_failed' = st.failed
                /\ collection' = st.index
    /\ UNCHANGED <<chunk_size, kind, visuals, clock, chunker, parser, sanitizer,
                   st_chunks, prose, collect, run>>

\* one prose path run on one page
ScrapePageCall ==
    /\ kind = "page"
    /\ ~pg_done
    /\ pg_done' = TRUE
    /\ pg_chunks' = ScrapePage(pg_path, pg_page)
    /\ UNCHANGED <<chunk_size, kind, visuals, clock, chunker, parser, sanitizer, store,
                   pg_path, pg_page, collect, run>>

\* one call of a collector
CollectCall ==
    /\ kind = "collect"
    /\ ~co_done
    /\ co_done' = TRUE
    /\ \E gathered \in {Collect(co_collector, co_input)} :
           /\ co_requests' = gathered.requests
           /\ co_chunks' = gathered.chunks
    /\ UNCHANGED <<chunk_size, kind, visuals, clock, chunker, parser, sanitizer, store,
                   prose, co_collector, co_input, run>>

\* one call of create_chord_visuals
CreateChordVisualsCall ==
    /\ kind = "visual"
    /\ ~cv_done
    /\ cv_done' = TRUE
    /\ cv_visual_data' = CreateChordVisuals(cv_chords_data)
    /\ UNCHANGED <<chunk_size, kind, clock, chunker, parser, sanitizer, store,
                   prose, collect, run, cv_chords_data>>

\* run_full_scrape calls a collector and extends all_chunks
RunCollect ==
    /\ kind = "run"
    /\ rn_outcome = "running"
    /\ RunSteps(rn_token)[rn_pc].op = "collect"
    /\ \E input \in RunInputs(RunSteps(rn_token)[rn_pc].name, rn_token) :
         \E gathered \in {Collect(RunSteps(rn_token)[rn_pc].name, input)} :
             /\ rn_last' = gathered.chunks
             /\ rn_all_chunks' = rn_all_chunks \o gathered.chunks
             /\ rn_requests' = rn_requests \o gathered.requests
             /\ rn_events' = Append(rn_events,
                                    [op   |-> "collect",
                                     name |-> RunSteps(rn_token)[rn_pc].name,
                                     ids  |-> Ids(gathered.chunks),
                                     metadatas |->
                                         [k \in 1..Len(rn_last') |->
                                             rn_last'[k].metadata]])
    /\ rn_pc' = rn_pc + 1
    /\ UNCHANGED <<chunk_size, kind, visuals, clock, chunker, parser, sanitizer, store,
                   prose, collect, rn_token, rn_outcome, rn_report>>

\* run_full_scrape calls save_chunks_to_json, which has no try: an error of
\* open() or json.dump leaves it and run_full_scrape
RunSnapshot ==
    /\ kind = "run"
    /\ rn_outcome = "running"
    /\ RunSteps(rn_token)[rn_pc].op = "json"
    /\ \E written \in BOOLEAN :
         IF written
         THEN LET chunks == IF RunSteps(rn_token)[rn_pc].name
                                 = "complete_music_dataset"
                            THEN rn_all_chunks ELSE rn_last
              IN  /\ rn_events' =
                        Append(rn_events,
                               [op   |-> "json",
                                name |-> RunSteps(rn_token)[rn_pc].name,
                                ids  |-> Ids(chunks),
                                metadatas |-> [k \in 1..Len(chunks) |->
                                                  chunks[k].metadata]])
                  /\ rn_pc' = rn_pc + 1
                  /\ UNCHANGED rn_outcome
         ELSE /\ rn_outcome' = "raised"
              /\ UNCHANGED <<rn_events, rn_pc>>
    /\ UNCHANGED <<chunk_size, kind, visuals, clock, chunker, parser, sanitizer, store,
                   prose, collect, rn_token, rn_last, rn_all_chunks,
                   rn_requests, rn_report>>

\* run_full_scrape calls save_to_chromadb(all_chunks)
RunStore ==
    /\ kind = "run"
    /\ rn_outcome = "running"
    /\ RunSteps(rn_token)[rn_pc].op = "store"
    /\ rn_events' =
          Append(rn_events,
                 [op |-> "store", name |-> "guitar_tools",
                  ids |-> Ids(rn_all_chunks),
                  metadatas |-> <<>>])
    /\ IF SaveToChromadbRaises(StoredChunks(rn_all_chunks))
       THEN /\ rn_outcome' = "raised"
            /\ UNCHANGED <<rn_pc, collection>>
       ELSE /\ rn_pc' = rn_pc + 1
            /\ UNCHANGED rn_outcome
            /\ LET batches == StoreBatches(StoredChunks(rn_all_chunks))
               IN  \E failing \in SUBSET (1..Len(batches)) :
                       collection' = AddBatches([index |-> collection,
                                                 submitted |-> <<>>,
                                                 failed |-> {}],
                                                batches, failing, 1).index
    /\ UNCHANGED <<chunk_size, kind, visuals, clock, chunker, parser, sanitizer,
                   st_chunks, st_calls, st_outcome, st_submitted, st_failed,
                   prose, collect, rn_token, rn_last, rn_all_chunks,
                   rn_requests, rn_report>>

\* run_full_scrape calls _print_summary(all_chunks) and returns all_chunks
RunSummary ==
    /\ kind = "run"
    /\ rn_outcome = "running"
    /\ RunSteps(rn_token)[rn_pc].op = "summary"
    /\ rn_report' = PrintSummary(rn_all_chunks)
    /\ rn_events' = Append(rn_events, [op |-> "summary", name |-> "summary",
                                       ids |-> Ids(rn_all_chunks),
                                       metadatas |-> <<>>])
    /\ rn_pc' = rn_pc + 1
    /\ rn_outcome' = "returned"
    /\ UNCHANGED <<chunk_size, kind, visuals, clock, chunker, parser, sanitizer, store,
                   prose, collect, rn_token, rn_last, rn_all_chunks,
                   rn_requests>>

Next ==
    \/ RateLimit
    \/ MakeRequest
    \/ ChunkTextCall
    \/ ChangeChunkMetadata
    \/ ParseTuxGuitarCall
    \/ ParseMidiCall
    \/ ParseFreetarCall
    \/ SanitizeCall
    \/ SaveToChromadbCall
    \/ ScrapePageCall
    \/ CollectCall
    \/ RunCollect
    \/ RunSnapshot
    \/ RunStore
    \/ RunSummary
    \/ CreateChordVisualsCall

Spec == Init /\ [][Next]_vars

-----------------------------------------------------------------------------
(* Properties *)

CeilDiv(a, b) == (a + b - 1) \div b

\* the number of tokens in the windows before the k-th
RECURSIVE WindowOffset(_, _)
WindowOffset(windows, k) ==
    IF k = 1 THEN 0
    ELSE WindowOffset(windows, k - 1) + Len(windows[k - 1])

\* C1: under a positive chunk_size, every chunk the scraper produces, the
\* dicts of _chunk_text and the MusicChunks of the structured parsers alike,
\* has token_count <= chunk_size.
C1_TokenCountWithinChunkSize ==
    chunk_size > 0 =>
        /\ \A k \in DOMAIN ct_chunks : ct_chunks[k].token_count <= chunk_size
        /\ \A k \in DOMAIN produced : produced[k].token_count <= chunk_size

\* C2: for a text of L tokens and chunk_size n > 0, _chunk_text returns
\* ceil(L/n) chunks, all of token_count n except the last, whose token_count
\* is L - n*(ceil(L/n) - 1).
C2_ChunkCountAndSizes ==
    (ct_outcome = "returned" /\ chunk_size > 0) =>
        LET L == Len(Encode(text))
            n == chunk_size
            k == CeilDiv(L, n)
        IN  /\ Len(ct_chunks) = k
            /\ \A j \in 1..(k - 1) : ct_chunks[j].token_count = n
            /\ k > 0 => ct_chunks[k].token_count = L - n * (k - 1)

\* two full windows and a shorter third one, as in 650 tokens under 300
C2_Witness ==
    /\ ct_outcome = "returned"
    /\ chunk_size = 2
    /\ Len(ct_chunks) = 3
    /\ ct_chunks[1].token_count = 2
    /\ ct_chunks[2].token_count = 2
    /\ ct_chunks[3].token_count = 1

\* C3: for chunk_size n > 0 the windows _chunk_text cuts lie one after the
\* other in the token sequence, each starting where the one before it ends,
\* and joined in output order they are encode(text); the k-th chunk is made
\* from the k-th window.
C3_WindowsPartitionTokens ==
    (ct_outcome = "returned" /\ chunk_size > 0) =>
        LET tokens == Encode(text)
        IN  /\ ConcatAll(ct_windows) = tokens
            /\ \A k \in DOMAIN ct_windows :
                 LET off == WindowOffset(ct_windows, k)
                 IN  /\ ct_windows[k] # <<>>
                     /\ ct_windows[k]
                          = SubSeq(tokens, off + 1, off + Len(ct_windows[k]))
            /\ Len(ct_chunks) = Len(ct_windows)
            /\ \A k \in DOMAIN ct_chunks :
                 /\ ct_chunks[k].token_count = Len(ct_windows[k])
                 /\ ct_chunks[k].content = Strip(Decode(ct_windows[k]))

\* several windows, the last one shorter, and tokens of more than one
\* character
C3_Witness ==
    /\ ct_outcome = "returned"
    /\ chunk_size = 2
    /\ Len(ct_windows) = 2
    /\ Len(ct_windows[2]) = 1
    /\ Len(text) > Len(Encode(text))

\* C4: every chunk _chunk_text emits has non-empty content.
C4_ContentNonEmpty ==
    ct_outcome = "returned" =>
        \A k \in DOMAIN ct_chunks : ct_chunks[k].content # <<>>

\* C5: under a chunk_size n > 0, _chunk_text returns without raising; for
\* the empty text it returns the empty list, and for a non-empty text of at
\* most n tokens exactly one chunk.
C5_EmptyAndShortText ==
    (ct_calls > 0 /\ chunk_size > 0) =>
        /\ ct_outcome = "returned"
        /\ text = <<>> => ct_chunks = <<>>
        /\ (text # <<>> /\ Len(Encode(text)) <= chunk_size)
              => Len(ct_chunks) = 1

\* a text of exactly chunk_size tokens gave one chunk
C5_Witness ==
    /\ ct_calls > 0
    /\ chunk_size = 2
    /\ Len(Encode(text)) = 2
    /\ Len(ct_chunks) = 1
    /\ ct_chunks[1].token_count = 2

\* C6: with a chunk_size <= 0 no call of _chunk_text on a non-empty text
\* completes by returning a list.
C6_NonPositiveChunkSizeFails ==
    (chunk_size <= 0 /\ ct_calls > 0 /\ text # <<>>)
        => ct_outcome # "returned"

\* C7: two chunks of _chunk_text with the same source and the same content
\* have the same chunk_id.
C7_ChunkIdFromSourceAndContent ==
    ct_outcome = "returned" =>
        \A i, j \in DOMAIN ct_chunks :
            (/\ DictGet(ct_chunks[i].metadata, "source", <<>>)
                  = DictGet(ct_chunks[j].metadata, "source", <<>>)
             /\ ct_chunks[i].content = ct_chunks[j].content)
                => ct_chunks[i].chunk_id = ct_chunks[j].chunk_id

PositionDiffers(c, d) ==
    \/ c.metadata.measure # d.metadata.measure
    \/ kind = "tuxguitar" /\ c.metadata.beat # d.metadata.beat

\* C9: two TuxGuitar beats, or two MIDI measures, of the same title that
\* differ in measure or beat have different chunk_ids.
C9_PositionsGiveDistinctIds ==
    (parsed /\ kind \in {"tuxguitar", "midi"}) =>
        \A i, j \in DOMAIN produced :
            (/\ produced[i].title = produced[j].title
             /\ PositionDiffers(produced[i], produced[j]))
                => produced[i].chunk_id # produced[j].chunk_id

\* two beats of one track and voice that hold the same notes, chord and
\* duration at the same beat index of different measures
C9_Witness ==
    /\ parsed
    /\ kind = "tuxguitar"
    /\ \E i, j \in DOMAIN produced :
         /\ produced[i].title = produced[j].title
         /\ produced[i].metadata.track = produced[j].metadata.track
         /\ produced[i].metadata.beat = produced[j].metadata.beat
         /\ produced[i].metadata.measure # produced[j].metadata.measure
         /\ produced[i].metadata.notes = produced[j].metadata.notes
         /\ produced[i].metadata.notes # <<>>
         /\ produced[i].chunk_id # produced[j].chunk_id

\* C10: _sanitize_metadata_for_chromadb returns for every metadata dict, and
\* every value of the dict it returns is a str, a number, a bool or None.
C10_SanitizeTotalAndScalar ==
    sn_outcome # "none" =>
        /\ sn_outcome = "returned"
        /\ \A key \in DOMAIN sn_sanitized : IsScalar(sn_sanitized[key])

\* the value C11 names for one metadata value
RuleValue(value) ==
    IF IsScalar(value) THEN value
    ELSE IF value.t = "list"
            /\ \A i \in 1..Len(value.items) : IsScalar(value.items[i])
    THEN PyStrValue(Join(CommaSpace, [i \in 1..Len(value.items) |->
                                         PyStr(value.items[i])]))
    ELSE IF value.t = "dict" THEN PyStrValue(JsonDumps(value))
    ELSE PyStrValue(PyStr(value))

\* C11: in the dict _sanitize_metadata_for_chromadb returns, a scalar value
\* is unchanged, a list whose items are all scalars (str, number, bool or
\* None; the empty list too) is its items joined with ', ', a dict is its
\* JSON text, and any other value is its str().
C11_SanitizeRule ==
    sn_outcome = "returned" =>
        \A key \in DOMAIN sn_metadata :
            sn_sanitized[key] = RuleValue(sn_metadata[key])

\* C12: save_to_chromadb hands the chunks to the index as consecutive
\* batches in input order: no batch has more than 100 items, every batch
\* but the last has exactly 100, every chunk is in exactly one batch, and
\* the i-th id, document and metadata of a batch are those of one chunk.
C12_ConsecutiveAlignedBatches ==
    st_outcome = "returned" =>
        LET nb == Len(st_submitted)
        IN  /\ nb = 0 <=> st_chunks = <<>>
            /\ \A b \in 1..nb :
                 LET batch == st_submitted[b]
                     size  == Len(batch.ids)
                 IN  /\ size >= 1
                     /\ size <= BatchSize
                     /\ b < nb => size = BatchSize
                     /\ b = nb => (nb - 1) * BatchSize + size = Len(st_chunks)
                     /\ Len(batch.documents) = size
                     /\ Len(batch.metadatas) = size
                     /\ \A i \in 1..size :
                          LET k == (b - 1) * BatchSize + i
                          IN  /\ k <= Len(st_chunks)
                              /\ batch.ids[i] = st_chunks[k].chunk_id
                              /\ batch.documents[i] = st_chunks[k].content
                              /\ batch.metadatas[i]
                                   = SanitizeMetadata(st_chunks[k].metadata)

\* 201 chunks went out as batches of 100, 100 and 1, the first chunk with
\* a list in its metadata
C12_Witness ==
    /\ st_outcome = "returned"
    /\ Len(st_chunks) = 2 * BatchSize + 1
    /\ Len(st_submitted) = 3
    /\ Len(st_submitted[3].ids) = 1
    /\ "notes" \in DOMAIN st_chunks[1].metadata
    /\ st_submitted[1].metadatas[1].notes.t = "str"

\* C13: when the insert of a batch fails, save_to_chromadb still returns,
\* every later batch has been handed to the index as well, and the chunks
\* of every batch whose insert did not fail are in the index.
C13_FailedBatchDoesNotAbort ==
    st_failed # {} =>
        /\ st_outcome = "returned"
        /\ Len(st_submitted) = CeilDiv(Len(st_chunks), BatchSize)
        /\ \A b \in 1..Len(st_submitted) :
             b \notin st_failed =>
                \A i \in 1..Len(st_submitted[b].ids) :
                    LET id == st_submitted[b].ids[i]
                    IN  /\ id \in DOMAIN collection
                        /\ collection[id].document
                             = st_submitted[b].documents[i]

\* the insert of the first of three batches failed and the chunks of the
\* other two are in the index
C13_Witness ==
    /\ st_outcome = "returned"
    /\ st_calls = 1
    /\ st_failed = {1}
    /\ Len(st_submitted) = 3
    /\ st_submitted[2].ids[1] \in DOMAIN collection
    /\ st_submitted[3].ids[1] \in DOMAIN collection
    /\ st_submitted[1].ids[1] \notin DOMAIN collection

\* C14: storing the same chunks again, in a second call or as a chunk_id
\* that occurs twice in one call, leaves the index with the entry of every
\* chunk_id, holding that chunk's content: when no insert failed for a
\* reason other than a repeated id, every chunk given is in the index.
C14_ReingestionIdempotent ==
    (/\ st_outcome = "returned"
     /\ \A b \in st_failed : AddRejects(st_submitted[b]))
    => \A k \in 1..Len(st_chunks) :
          /\ st_chunks[k].chunk_id \in DOMAIN collection
          /\ collection[st_chunks[k].chunk_id].document = st_chunks[k].content

\* the prose a path has in hand when it decides whether to chunk it
PageProse(path, page) ==
    CASE path = "webpage" -> WebpageText(page)
      [] path = "pdf"     -> PdfText(page.pages)
      [] OTHER            -> page.text

\* C20: on every prose path (the main page of a site, a lesson page, a
\* generic web page, the text of a PDF) prose of fewer than 50 characters
\* is not chunked: the path returns no chunk for it.
C20_ShortProseNotChunked ==
    (pg_done /\ Len(PageProse(pg_path, pg_page)) < MinContentLength)
        => pg_chunks = <<>>

\* the items a collector loops over, each with the URL it asks for and the
\* chunks the body of the loop makes of it
LoopItems(collector, input) ==
    CASE collector = "educational" ->
            ConcatAll([k \in 1..Len(input) |->
                <<[url    |-> input[k].url,
                   chunks |-> ScrapeMainPage(input[k].page, input[k].url,
                                             input[k].site_name)]>>
                \o [i \in 1..Len(input[k].lessons) |->
                       [url    |-> input[k].lessons[i].url,
                        chunks |-> LessonItem(input[k].lessons[i],
                                              input[k].site_name).chunks]]])
      [] collector = "ultimate_guitar" ->
            [i \in 1..Len(input) |->
                [url    |-> input[i].url,
                 chunks |-> UltimateGuitarItem(input[i]).chunks]]
      [] collector = "awesome" ->
            LET named(link) == link.title # <<"X">>
                links == SelectSeq(input.links, named)
            IN  [i \in 1..Len(links) |->
                    [url    |-> links[i].url,
                     chunks |-> AwesomeItem(links[i]).chunks]]
      [] collector = "hooktheory" ->
            IF input.token \in {<<>>, <<<<>>>>} THEN <<>>
            ELSE [i \in 1..Len(Progressions) |->
                    [url    |-> Word.hooktheory_api \o Progressions[i],
                     chunks |-> HookTheoryItem(Progressions[i],
                                               input.responses[i]).chunks]]

EventsOf(op) == {i \in 1..Len(rn_events) : rn_events[i].op = op}

CombinedSnapshots ==
    {i \in EventsOf("json") : rn_events[i].name = "complete_music_dataset"}

SourceSnapshots == EventsOf("json") \ CombinedSnapshots

TokenGiven == rn_token # <<>> /\ rn_token[1] # <<>>

\* C15 as the code has it: in one run of run_full_scrape each per-source
\* snapshot is written right after its collector returned and holds that
\* collector's chunks; then the store step is invoked, at most once and
\* exactly once in a run that returns, over the full accumulated chunk
\* list; only after it the combined snapshot is written, holding the same
\* list.
C15_SnapshotsStoreThenCombined ==
    /\ \A j \in SourceSnapshots :
          /\ j > 1
          /\ rn_events[j - 1].op = "collect"
          /\ rn_events[j].ids = rn_events[j - 1].ids
    /\ Cardinality(EventsOf("store")) <= 1
    /\ Cardinality(CombinedSnapshots) <= 1
    /\ \A i \in EventsOf("store") :
          /\ rn_events[i].ids = Ids(rn_all_chunks)
          /\ \A j \in SourceSnapshots : j < i
          /\ Cardinality(EventsOf("collect")) = Cardinality(SourceSnapshots)
          /\ Cardinality(SourceSnapshots) = IF TokenGiven THEN 4 ELSE 3
    /\ \A c \in CombinedSnapshots :
          /\ \E i \in EventsOf("store") : i < c
          /\ rn_events[c].ids = Ids(rn_all_chunks)
    /\ rn_outcome = "returned" =>
          /\ Cardinality(EventsOf("store")) = 1
          /\ Cardinality(CombinedSnapshots) = 1

\* a run with a token returned chunks of HookTheory and of another source,
\* having stored them and then written the combined snapshot
C15_Witness ==
    /\ rn_outcome = "returned"
    /\ TokenGiven
    /\ \E i \in EventsOf("store") :
          /\ i + 1 \in CombinedSnapshots
          /\ Len(rn_events[i].ids) > 1
    /\ \E k \in 1..Len(rn_all_chunks) : rn_all_chunks[k].source = Word.HookTheory
    /\ \E k \in 1..Len(rn_all_chunks) : rn_all_chunks[k].source # Word.HookTheory

\* C15 as stated: every per-source snapshot is written, then the combined
\* snapshot, and only then the store step is invoked, once, over the full
\* accumulated chunk list.
C15_CombinedSnapshotBeforeStore ==
    /\ Cardinality(EventsOf("store")) <= 1
    /\ \A i \in EventsOf("store") :
          /\ rn_events[i].ids = Ids(rn_all_chunks)
          /\ \A j \in SourceSnapshots : j < i
          /\ \E c \in CombinedSnapshots : c < i

\* C16: no exception leaves run_full_scrape; it returns normally whatever
\* failed inside the collectors, the snapshot writes, the store step and the
\* summary.
C16_NoExceptionLeavesRun == rn_outcome # "raised"

\* C17: every run of run_full_scrape that reaches its end has printed the
\* summary report with the chunk counts per source and per content type,
\* also the run in which all_chunks is empty.
C17_SummaryAlwaysPrinted ==
    rn_outcome = "returned" =>
        /\ rn_report # <<>>
        /\ rn_report[1].total_chunks = Len(rn_all_chunks)
        /\ rn_report[1].by_source # <<>>
        /\ rn_report[1].by_type # <<>>

\* the steps of a run without the HookTheory source
StepsWithoutHookTheory ==
    << [op |-> "collect", name |-> "educational"],
       [op |-> "json", name |-> "educational_websites"],
       [op |-> "collect", name |-> "ultimate_guitar"],
       [op |-> "json", name |-> "ultimate_guitar_tabs"],
       [op |-> "collect", name |-> "awesome"],
       [op |-> "json", name |-> "awesome_guitar_resources"],
       [op |-> "store", name |-> "guitar_tools"],
       [op |-> "json", name |-> "complete_music_dataset"],
       [op |-> "summary", name |-> "summary"] >>

\* C19: scrape_hooktheory_data called without a bearer token (None or the
\* empty string) sends no request and returns no chunk, and in a run of
\* run_full_scrape without a bearer token no request goes to the HookTheory API, no chunk of source
\* HookTheory is accumulated, and the calls made are, in order, those of
\* the other collectors, their snapshots, the store step, the combined
\* snapshot and the summary: all of them once the run has returned, and the
\* run is never stopped at the place of the skipped source.
C19_NoTokenSkipsHookTheory ==
    /\ (co_done /\ co_collector = "hooktheory"
           /\ (co_input.token = <<>> \/ co_input.token[1] = <<>>)) =>
          co_requests = <<>> /\ co_chunks = <<>>
    /\ (kind = "run" /\ ~TokenGiven) =>
           /\ \A r \in 1..Len(rn_requests) :
                 \/ Len(rn_requests[r]) < Len(Word.hooktheory_api)
                 \/ SubSeq(rn_requests[r], 1, Len(Word.hooktheory_api))
                       # Word.hooktheory_api
           /\ \A k \in 1..Len(rn_all_chunks) :
                 rn_all_chunks[k].source # Word.HookTheory
           /\ Len(rn_events) <= Len(StepsWithoutHookTheory)
           /\ \A i \in 1..Len(rn_events) :
                 /\ rn_events[i].op = StepsWithoutHookTheory[i].op
                 /\ rn_events[i].name = StepsWithoutHookTheory[i].name
           /\ rn_outcome = "returned" =>
                 Len(rn_events) = Len(StepsWithoutHookTheory)
           /\ rn_outcome = "raised" =>
                 StepsWithoutHookTheory[Len(rn_events) + 1].op = "json"

\* a run with the empty string as token returned the chunks of the other
\* collectors after the store step, the combined snapshot and the summary
C19_Witness ==
    /\ kind = "run"
    /\ rn_token = <<(<<>>)>>
    /\ rn_outcome = "returned"
    /\ rn_requests # <<>>
    /\ rn_all_chunks # <<>>
    /\ rn_events[7].op = "store"
    /\ rn_events[7].ids = Ids(rn_all_chunks)

\* C21: any two consecutive GETs sent through _make_request start at least
\* request_delay apart on the clock time.time() reads, whether the earlier
\* one gave a response or failed, and every GET starts at the time
\* _rate_limit has just noted in last_request_time.
C21_RequestsSpacedByDelay ==
    /\ \A k \in 1..(Len(rq_log) - 1) :
          rq_log[k + 1].start - rq_log[k].start >= RequestDelay
    /\ rq_log # <<>> => last_request_time = rq_log[Len(rq_log)].start

\* a request failed and came back at once; the next one was asked for right
\* away and started request_delay after the first
C21_Witness ==
    /\ Len(rq_log) >= 2
    /\ ~rq_log[1].ok
    /\ rq_log[2].start = rq_log[1].start + RequestDelay
    /\ now = rq_log[2].start

\* whether one of the words is in the lowercased text
HasWord(content, words) == \E word \in words : Contains(Lower(content), word)

\* the topic by the priority chords > scales > rhythm > technique > theory
TopicByPriority(content) ==
    IF HasWord(content, TopicRules[1].words) THEN TopicRules[1].topic
    ELSE IF HasWord(content, TopicRules[2].words) THEN TopicRules[2].topic
    ELSE IF HasWord(content, TopicRules[3].words) THEN TopicRules[3].topic
    ELSE IF HasWord(content, TopicRules[4].words) THEN TopicRules[4].topic
    ELSE IF HasWord(content, TopicRules[5].words) THEN TopicRules[5].topic
    ELSE Word.general

\* the difficulty by the priority beginner > advanced
DifficultyByPriority(content) ==
    IF HasWord(content, DifficultyRules[1].words)
    THEN DifficultyRules[1].difficulty
    ELSE IF HasWord(content, DifficultyRules[2].words)
    THEN DifficultyRules[2].difficulty
    ELSE Word.intermediate

\* C22: every chunk _create_chunks_from_content makes of a text carries the
\* topic of the first of chords, scales, rhythm, technique, theory one of
\* whose keywords is in the lowercased text, else general, and the
\* difficulty of the first of beginner, advanced so found, else
\* intermediate; so all chunks of one text carry the same two labels.
C22_TopicAndDifficultyByPriority ==
    (pg_done /\ pg_path \in {"main_page", "lesson"}) =>
        \A topic \in {TopicByPriority(pg_page.text)},
           difficulty \in {DifficultyByPriority(pg_page.text)} :
            \A k \in 1..Len(pg_chunks) :
                /\ pg_chunks[k].metadata.topic = topic
                /\ pg_chunks[k].metadata.difficulty = difficulty

\* a main page naming theory before chords and an advanced word before a
\* beginner's was cut into several chunks, all of topic chords and
\* difficulty beginner
C22_Witness ==
    /\ pg_done
    /\ pg_path = "main_page"
    /\ Len(pg_chunks) > 1
    /\ HasWord(pg_page.text, TopicRules[5].words)
    /\ HasWord(pg_page.text, TopicRules[1].words)
    /\ HasWord(pg_page.text, DifficultyRules[2].words)
    /\ HasWord(pg_page.text, DifficultyRules[1].words)
    /\ \A k \in 1..Len(pg_chunks) :
          /\ pg_chunks[k].metadata.topic = TopicRules[1].topic
          /\ pg_chunks[k].metadata.difficulty = DifficultyRules[1].difficulty

\* the markers of a tab file's text with the text that follows each, in the
\* order of the text
TabSections(content) ==
    LET segments == ReSplit(content)
    IN  [k \in 1..((Len(segments) - 1) \div 2) |->
            [marker |-> segments[2 * k], body |-> segments[2 * k + 1]]]

\* the text of a tab file before its first marker
TabLead(content) == ReSplit(content)[1]

\* C23: parse_freetar_ascii_tabs on one file with k section markers, each
\* followed by a body that is not blank, returns, in the order of the file,
\* one chunk of section "Intro" holding the text before the first marker
\* when that text is not blank, and then exactly k chunks, the i-th of them
\* tagged with the i-th marker and holding the text between that marker and
\* the next one, stripped.
C23_SectionsInDocumentOrder ==
    (/\ parsed
     /\ kind = "freetar"
     /\ Len(tab_filepaths) = 1
     /\ tab_filepaths[1].exists /\ tab_filepaths[1].readable) =>
        \A sections \in {TabSections(tab_filepaths[1].content)},
           lead \in {Strip(TabLead(tab_filepaths[1].content))} :
            (\A i \in 1..Len(sections) : Strip(sections[i].body) # <<>>) =>
                LET intro == IF lead # <<>> THEN 1 ELSE 0
                IN  /\ Len(produced) = intro + Len(sections)
                    /\ intro = 1 =>
                          /\ produced[1].metadata.section = Word.Intro
                          /\ produced[1].metadata.tab = lead
                    /\ \A i \in 1..Len(sections) :
                          /\ produced[intro + i].metadata.section
                                 = sections[i].marker
                          /\ produced[intro + i].metadata.tab
                                 = Strip(sections[i].body)

\* a file with text before its first marker and two markers gave three
\* chunks: Intro, then the two sections in the order of the file
C23_Witness ==
    /\ parsed
    /\ kind = "freetar"
    /\ Len(tab_filepaths) = 1
    /\ Len(TabSections(tab_filepaths[1].content)) = 2
    /\ Len(produced) = 3
    /\ produced[1].metadata.section = Word.Intro
    /\ produced[2].metadata.section = Word.verse
    /\ produced[3].metadata.section = <<"S", "o", "l", "o">>
    /\ produced[2].metadata.tab = <<"G">>

\* the files of a list that the parser can open
Opened(files) ==
    LET Good(file) == file.exists /\ file.readable
    IN  SelectSeq(files, Good)

\* the beats of the non-percussion tracks of the files, one entry each
BeatsOf(files) ==
    ConcatAll([f \in 1..Len(Opened(files)) |->
      ConcatAll([t \in 1..Len(Opened(files)[f].song.tracks) |->
        LET track == Opened(files)[f].song.tracks[t]
        IN  IF track.isPercussionTrack THEN <<>>
            ELSE ConcatAll([m \in 1..Len(track.measures) |->
                   ConcatAll([v \in 1..Len(track.measures[m].voices) |->
                      track.measures[m].voices[v].beats])])])])

\* the measures of the parts of the files, one entry each; a part without
\* measures counts as one
MeasuresOf(files) ==
    ConcatAll([f \in 1..Len(Opened(files)) |->
      ConcatAll([p \in 1..Len(Opened(files)[f].score.parts) |->
        LET part == Opened(files)[f].score.parts[p]
        IN  IF part.measures = <<>> THEN <<part>> ELSE part.measures])])

\* the sections of the files, one entry each: the text before the first
\* marker when it is not blank, and every marker
SectionsOf(files) ==
    ConcatAll([f \in 1..Len(Opened(files)) |->
      (IF Strip(TabLead(Opened(files)[f].content)) # <<>>
       THEN <<[marker |-> Word.Intro,
               body |-> TabLead(Opened(files)[f].content)]>>
       ELSE <<>>)
      \o TabSections(Opened(files)[f].content)])

\* C24: structured records are always emitted: the parsers return exactly
\* one chunk for every beat of a non-percussion TuxGuitar track, for every
\* measure of a MIDI part and for every marked section of a tab file, also
\* when the beat or the measure has no notes or the section has no text.
C24_StructuredRecordsAlwaysEmitted ==
    /\ (parsed /\ kind = "tuxguitar") =>
          Len(produced) = Len(BeatsOf(gp_filepaths))
    /\ (parsed /\ kind = "midi") =>
          Len(produced) = Len(MeasuresOf(midi_filepaths))
    /\ (parsed /\ kind = "freetar") =>
          Len(produced) = Len(SectionsOf(tab_filepaths))

\* C25: after _chunk_text, and after the caller has added, removed or
\* replaced a key in the metadata of one returned chunk, the caller's own
\* mapping is the one it passed, and the metadata of every other chunk is
\* equal to it; a chunk not changed holds what _chunk_text returned for it.
C25_MetadataCopiedPerChunk ==
    ct_outcome = "returned" =>
        /\ ct_heap[0] = metadata
        /\ \A k \in 1..Len(ct_refs) :
              k \notin ct_touched =>
                  /\ ct_heap[ct_refs[k]] = metadata
                  /\ ct_heap[ct_refs[k]] = ct_chunks[k].metadata

\* the caller changed the metadata of one of several chunks
C25_Witness ==
    /\ ct_outcome = "returned"
    /\ Len(ct_chunks) > 1
    /\ ct_touched = {1}
    /\ ct_heap[ct_refs[1]] # metadata
    /\ ct_heap[ct_refs[2]] = metadata

\* C26: every metadata mapping save_to_chromadb hands to collection.add is
\* the sanitized form of the metadata of the chunk at that place and holds
\* scalar values only; and the combined snapshot, written after the store
\* step, holds for every chunk the metadata the per-source snapshots, written
\* before it, hold.
C26_SanitizedAtStoreOnly ==
    /\ \A b \in 1..Len(st_submitted) :
          \A i \in 1..Len(st_submitted[b].metadatas) :
              LET handed == st_submitted[b].metadatas[i]
                  chunk == st_chunks[(b - 1) * BatchSize + i]
              IN  /\ handed = SanitizeMetadata(chunk.metadata)
                  /\ \A key \in DOMAIN handed : IsScalar(handed[key])
                  /\ DOMAIN handed = DOMAIN chunk.metadata
    /\ \A c \in CombinedSnapshots :
          /\ \E i \in EventsOf("store") : i < c
          /\ rn_events[c].metadatas
                 = ConcatAll([j \in 1..(c - 1) |->
                                 IF j \in SourceSnapshots
                                 THEN rn_events[j].metadatas ELSE <<>>])

\* a chunk whose metadata holds a list was handed over with a string in its
\* place, and the chunk still holds the list
C26_Witness ==
    /\ st_outcome = "returned"
    /\ st_submitted # <<>>
    /\ \E key \in DOMAIN st_chunks[1].metadata :
          /\ st_chunks[1].metadata[key].t = "list"
          /\ st_submitted[1].metadatas[1][key].t = "str"

\* C27: every chunk _chunk_text returned has as token_count the number of
\* tokens the tokenizer makes of the chunk's content, the stripped text.
C27_TokenCountIsOfContent ==
    (ct_outcome = "returned" /\ ct_touched = {}) =>
        \A k \in 1..Len(ct_chunks) :
            ct_chunks[k].token_count = TokenCount(ct_chunks[k].content)

\* C28: the chunks parse_tuxguitar_files makes of one file, one per beat of
\* every voice of every measure of every track that is not percussion, have
\* pairwise different chunk_ids.
C28_BeatsOfOneFileDistinctIds ==
    (parsed /\ kind = "tuxguitar" /\ Len(gp_filepaths) = 1) =>
        \A i, j \in DOMAIN produced :
            i # j => produced[i].chunk_id # produced[j].chunk_id

\* C29: the list run_full_scrape passes to save_to_chromadb holds no
\* chunk_id twice.
C29_RunHandsDistinctIds ==
    \A e \in EventsOf("store") :
        \A i, j \in 1..Len(rn_events[e].ids) :
            i # j => rn_events[e].ids[i] # rn_events[e].ids[j]

\* C30: when no local drawing fails, create_chord_visuals returns one entry
\* per chord given, in the order given, and the fret_positions of every
\* entry are parse_chord_notation of the notation of that chord, whether
\* its diagram came from the remote service or was drawn locally.
C30_EntryPerChordWithItsPositions ==
    (cv_done /\ \A i \in 1..Len(cv_chords_data) :
                    cv_chords_data[i].remote \/ cv_chords_data[i].drawn) =>
        /\ Len(cv_visual_data) = Len(cv_chords_data)
        /\ \A i \in 1..Len(cv_visual_data) :
              /\ cv_visual_data[i].chord_name = cv_chords_data[i].name
              /\ cv_visual_data[i].notation = cv_chords_data[i].notation
              /\ cv_visual_data[i].fret_positions
                     = ParseChordNotation(cv_chords_data[i].notation)

====
